---- MODULE Spec2Model ----
(***************************************************************************)
(* A model of the session lifecycle and trash engine of the history        *)
(* manager: the path-safety helpers and file moves of src/src/fs-utils.js, *)
(* the archive / unarchive operations of the Codex and Gemini session      *)
(* stores, the Claude listing, the batch runner of src/src/cli.js and the  *)
(* trash store (src/unnamed/part_001, required as ../src/trash-store).     *)
(*                                                                         *)
(* A path is a sequence of segments and a segment is a tuple of string     *)
(* tokens: <<"sessions">> is a directory name, a rollout file name         *)
(* rollout-2026-02-08T03-11-52-t1.jsonl is the tuple                       *)
(* <<"rollout","2026","02","08","03","11","52","t1","jsonl">>; a trash id  *)
(* is the tuple of its characters.  A JavaScript string that holds a path  *)
(* (the fields of a metadata record) is a record [abs, segs].              *)
(***************************************************************************)
EXTENDS Integers, Sequences, FiniteSets, TLC

VARIABLES
  disk,           \* the filesystem: [files: path -> content, dirs: set of paths]
  disk0,          \* the filesystem the run started from (never changes)
  xdev,           \* TRUE when the trash root is on another device than the homes
  retentionDays,  \* TrashStore.retentionDays
  now,            \* the clock, in days
  nextId,         \* number of trash ids createTrashId has handed out
  lost,           \* bodies of the session files removed by purge / cleanupExpired
  last,           \* the last operation and what it reported
  reqs,           \* the requests in flight (interleaved specification)
  crashed,        \* TRUE once the process has stopped inside a request
  trashedFrom,    \* the home root each trash id was trashed from, by number
  tampers,        \* number of hand edits made to the trash directory
  server,         \* the server process: whether it listens, and what its
                  \* startup sweep found expired and failed to purge
  store,          \* the session store: titleCache and, for the Codex store,
                  \* desktopTitleCache
  denied          \* the paths the process has no permission to read (EACCES)

vars ==
  <<disk, disk0, xdev, retentionDays, now, nextId, lost, last, reqs, crashed,
    trashedFrom, tampers, server, store, denied>>

---------------------------------------------------------------------------
(* Bounds of the model *)

MaxTrash == 2
MaxRetention == 1
MaxTampers == 1
MaxBatch == 2

---------------------------------------------------------------------------
(* Paths: node:path on a POSIX host *)

Seg(s) == <<s>>
DotDot == Seg("..")
Dot == Seg(".")

Str(abs, segs) == [abs |-> abs, segs |-> segs]
Rel(segs) == Str(FALSE, segs)
Abs(segs) == Str(TRUE, segs)
EmptyString == Rel(<<>>)
BlankString == Rel(<<Seg(" ")>>)

IsPrefix(a, b) == Len(a) <= Len(b) /\ SubSeq(b, 1, Len(a)) = a

Dirname(p) == IF Len(p) = 0 THEN p ELSE SubSeq(p, 1, Len(p) - 1)

Basename(p) == IF Len(p) = 0 THEN <<>> ELSE p[Len(p)]

RECURSIVE NormalizeFrom(_, _)
NormalizeFrom(acc, segs) ==
  IF segs = <<>> THEN acc
  ELSE LET s == Head(segs) IN
       IF s = Dot THEN NormalizeFrom(acc, Tail(segs))
       ELSE IF s = DotDot THEN NormalizeFrom(Dirname(acc), Tail(segs))
       ELSE NormalizeFrom(Append(acc, s), Tail(segs))

\* path.resolve(root, string): an absolute string replaces the root
PathResolve(root, str) ==
  IF str.abs THEN NormalizeFrom(<<>>, str.segs)
  ELSE NormalizeFrom(NormalizeFrom(<<>>, root), str.segs)

\* path.join(absolute directory, relative segments)
PathJoin(root, segs) == NormalizeFrom(root, segs)

RECURSIVE CommonLen(_, _)
CommonLen(a, b) ==
  IF a = <<>> \/ b = <<>> \/ Head(a) # Head(b) THEN 0
  ELSE 1 + CommonLen(Tail(a), Tail(b))

\* path.relative(from, to), as the segments of the relative string
PathRelative(from, to) ==
  LET k == CommonLen(from, to) IN
  [i \in 1..(Len(from) - k) |-> DotDot] \o SubSeq(to, k + 1, Len(to))

\* normalizeRelativePath: split on path.sep, join with "/" (identity on POSIX)
normalizeRelativePath(segs) == Rel(segs)

isPathInsideRoot(rootPath, candidatePath) ==
  LET resolvedRoot == NormalizeFrom(<<>>, rootPath)
      resolvedCandidate == NormalizeFrom(<<>>, candidatePath)
  IN resolvedCandidate = resolvedRoot \/
     (IsPrefix(resolvedRoot, resolvedCandidate) /\ Len(resolvedCandidate) > Len(resolvedRoot))

IsBlank(str) == ~str.abs /\ (str.segs = <<>> \/ \A i \in 1..Len(str.segs) : str.segs[i] = Seg(" "))

\* resolvePathWithinRoot: [err, path]; err is "" when the path is returned
resolvePathWithinRoot(rootPath, relativePath) ==
  IF IsBlank(relativePath) THEN [err |-> "is missing", path |-> <<>>]
  ELSE LET resolvedRoot == NormalizeFrom(<<>>, rootPath)
           resolvedCandidate == PathResolve(resolvedRoot, relativePath)
       IN IF ~isPathInsideRoot(resolvedRoot, resolvedCandidate)
          THEN [err |-> "escapes allowed root", path |-> <<>>]
          ELSE [err |-> "", path |-> resolvedCandidate]

---------------------------------------------------------------------------
(* The filesystem: node:fs/promises on a disk [files, dirs] *)

Ok(d) == [err |-> "", disk |-> d]
Fail(code, d) == [err |-> code, disk |-> d]

IsFile(d, p) == p \in DOMAIN d.files
IsDir(d, p) == p \in d.dirs

Without(f, keys) == [q \in (DOMAIN f) \ keys |-> f[q]]

Prefixes(p) == {SubSeq(p, 1, k) : k \in 0..Len(p)}

\* fs.access succeeds: the path names a file or a directory
Access(d, p) == IsFile(d, p) \/ IsDir(d, p)

pathExists(d, targetPath) == Access(d, targetPath)

\* fs.mkdir(p, {recursive: true})
Mkdirp(d, p) ==
  IF \E q \in Prefixes(p) : IsFile(d, q) THEN Fail("EEXIST", d)
  ELSE Ok([d EXCEPT !.dirs = @ \cup Prefixes(p)])

ensureDir(d, directoryPath) == Mkdirp(d, directoryPath)

TrashRoot == <<Seg("trash")>>

\* the device a path lives on: the trash root may be a mount of its own
Device(p) == IF xdev /\ IsPrefix(TrashRoot, p) THEN "trash-device" ELSE "home-device"

Rebase(src, dst, q) == dst \o SubSeq(q, Len(src) + 1, Len(q))

\* fs.rename: rename(2)
Rename(d, src, dst) ==
  IF ~Access(d, src) THEN Fail("ENOENT", d)
  ELSE IF ~IsDir(d, Dirname(dst)) THEN Fail("ENOENT", d)
  ELSE IF Device(src) # Device(dst) THEN Fail("EXDEV", d)
  ELSE IF src = dst THEN Ok(d)
  ELSE IF IsFile(d, src) THEN
    IF IsDir(d, dst) THEN Fail("EISDIR", d)
    ELSE Ok([d EXCEPT !.files = (dst :> d.files[src]) @@ Without(d.files, {src})])
  ELSE IF IsFile(d, dst) THEN Fail("ENOTDIR", d)
  ELSE IF IsPrefix(src, dst) THEN Fail("EINVAL", d)
  ELSE IF IsDir(d, dst) /\ \E q \in (DOMAIN d.files) \cup d.dirs : IsPrefix(dst, q) /\ q # dst
    THEN Fail("ENOTEMPTY", d)
  ELSE LET movedFiles == {q \in DOMAIN d.files : IsPrefix(src, q)}
           movedDirs == {q \in d.dirs : IsPrefix(src, q)}
       IN Ok([files |-> [q \in {Rebase(src, dst, m) : m \in movedFiles} |->
                           d.files[CHOOSE m \in movedFiles : Rebase(src, dst, m) = q]]
                         @@ Without(d.files, movedFiles),
              dirs |-> (d.dirs \ movedDirs) \cup {Rebase(src, dst, m) : m \in movedDirs}])

\* fs.copyFile: the destination is overwritten when it exists
CopyFile(d, src, dst) ==
  IF ~Access(d, src) THEN Fail("ENOENT", d)
  ELSE IF IsDir(d, src) THEN Fail("EISDIR", d)
  ELSE IF ~IsDir(d, Dirname(dst)) THEN Fail("ENOENT", d)
  ELSE IF IsDir(d, dst) THEN Fail("EISDIR", d)
  ELSE Ok([d EXCEPT !.files = (dst :> d.files[src]) @@ Without(d.files, {dst})])

\* fs.unlink
Unlink(d, p) ==
  IF ~Access(d, p) THEN Fail("ENOENT", d)
  ELSE IF IsDir(d, p) THEN Fail("EISDIR", d)
  ELSE Ok([d EXCEPT !.files = Without(d.files, {p})])

\* fs.rm(p, {recursive: true, force: true})
RmRf(d, p) ==
  Ok([files |-> Without(d.files, {q \in DOMAIN d.files : IsPrefix(p, q)}),
      dirs |-> {q \in d.dirs : ~IsPrefix(p, q)}])

\* fs.writeFile
WriteFile(d, p, content) ==
  IF ~IsDir(d, Dirname(p)) THEN Fail("ENOENT", d)
  ELSE IF IsDir(d, p) THEN Fail("EISDIR", d)
  ELSE Ok([d EXCEPT !.files = (p :> content) @@ Without(d.files, {p})])

---------------------------------------------------------------------------
(* Roots, file names and file contents *)

CodexHome == <<Seg("codex")>>
ClaudeHome == <<Seg("claude")>>
GeminiHome == <<Seg("gemini")>>
Cwd == <<Seg("work")>>

\* SessionStore constructor
sessionsRoot == PathJoin(CodexHome, <<Seg("sessions")>>)
archivedRoot == PathJoin(CodexHome, <<Seg("archived_sessions")>>)
\* ClaudeSessionStore constructor
claudeProjectsRoot == PathJoin(ClaudeHome, <<Seg("projects")>>)
\* GeminiSessionStore constructor
geminiProjectsRoot == PathJoin(GeminiHome, <<Seg("tmp")>>)
geminiArchivedRoot == PathJoin(GeminiHome, <<Seg("archived_sessions")>>)
\* TrashStore constructor
itemsRoot == PathJoin(TrashRoot, <<Seg("items")>>)

\* the tokens \d{4} and \d{2} match, among the tokens the model uses
FourDigits == {"2026"}
TwoDigits == {"02", "03", "07", "08", "09", "11", "52"}

\* rollout-<y>-<m>-<d>T<hh>-<mm>-<ss>-<threadId>.jsonl
RolloutName(y, m, day, tid) == <<"rollout", y, m, day, "03", "11", "52", tid, "jsonl">>

\* ROLLOUT_FILENAME_PATTERN
MatchesRolloutPattern(fileName) ==
  /\ Len(fileName) = 9
  /\ fileName[1] = "rollout"
  /\ fileName[2] \in FourDigits
  /\ \A i \in 3..7 : fileName[i] \in TwoDigits
  /\ fileName[8] # ""
  /\ fileName[9] = "jsonl"

\* a mutant of parseRolloutFilename: the month and the day are swapped
parseRolloutFilename_DayMonth(fileName) ==
  IF ~MatchesRolloutPattern(fileName)
  THEN [ok |-> FALSE, year |-> "", month |-> "", day |-> "", threadId |-> <<>>]
  ELSE [ok |-> TRUE, year |-> fileName[2], month |-> fileName[4], day |-> fileName[3],
        threadId |-> <<fileName[8]>>]

\* parseRolloutFilename: ok is FALSE for null
parseRolloutFilename(fileName) ==
  IF ~MatchesRolloutPattern(fileName)
  THEN [ok |-> FALSE, year |-> "", month |-> "", day |-> "", threadId |-> <<>>]
  ELSE [ok |-> TRUE, year |-> fileName[2], month |-> fileName[3], day |-> fileName[4],
        threadId |-> <<fileName[8]>>]

\* the content of a session file; body names the conversation it holds
Session(body, system, sessionId) ==
  [kind |-> "session", body |-> body, system |-> system, sessionId |-> sessionId]

\* the content of meta.json; json is "object", "null" or "garbage" (unparsable)
Meta(json, trashId, item, payloadRelativePath, deletedAt, expiresAt, homeRoot) ==
  [kind |-> "meta", json |-> json, trashId |-> trashId, threadId |-> item.threadId,
   fileName |-> item.fileName, originalState |-> item.state,
   originalRelativePath |-> item.relativePath,
   payloadRelativePath |-> payloadRelativePath,
   deletedAt |-> deletedAt, expiresAt |-> expiresAt,
   provider |-> IF item.provider = "" THEN "codex" ELSE item.provider,
   homeRoot |-> homeRoot]

NoItem ==
  [itemId |-> [b64 |-> <<>>], threadId |-> <<>>, fileName |-> <<>>, state |-> "none",
   absolutePath |-> <<>>, relativePath |-> EmptyString, provider |-> ""]

NoMeta == Meta("garbage", <<>>, NoItem, EmptyString, 0, 0, EmptyString)

---------------------------------------------------------------------------
(* Item ids *)

\* Buffer.from(text, "utf8").toString("base64url") and back
Base64Url(text) == [b64 |-> text]
FromBase64Url(id) == id.b64

\* session-store.js encodeItemId: the home-relative path
encodeItemId(relativePath) == Base64Url(relativePath.segs)

\* claude-session-store.js encodeClaudeItemId: "claude:" + sessionId
encodeClaudeItemId(sessionId) == Base64Url(<<<<"claude:">> \o sessionId>>)

\* gemini-session-store.js encodeGeminiItemId: "gemini:" + sessionId
encodeGeminiItemId(sessionId) == Base64Url(<<<<"gemini:">> \o sessionId>>)

StartsWithTag(text, tag) == Len(text) >= 1 /\ Len(text[1]) >= 1 /\ text[1][1] = tag

isClaudeItemId(itemId) == StartsWithTag(FromBase64Url(itemId), "claude:")

isGeminiItemId(itemId) == StartsWithTag(FromBase64Url(itemId), "gemini:")

---------------------------------------------------------------------------
(* Listings *)

\* readSessionSignalsFromRollout + isSystemSession, on the content read
isSystemSession(content) == content.kind # "session" \/ content.system

FilesUnder(d, root) == {p \in DOMAIN d.files : IsPrefix(root, p) /\ p # root}

\* SessionStore.#scanRoot: walkFiles, the name filter, the system filter
CodexScanRoot(d, rootPath, state) ==
  LET named == {p \in FilesUnder(d, rootPath) :
                   LET fileName == Basename(p) IN
                   Len(fileName) >= 2 /\ fileName[1] = "rollout"
                     /\ fileName[Len(fileName)] = "jsonl"}
      ItemOf(p) ==
        LET parsed == parseRolloutFilename(Basename(p))
            relativePath == normalizeRelativePath(PathRelative(CodexHome, p))
        IN [itemId |-> encodeItemId(relativePath),
            threadId |-> IF parsed.ok THEN parsed.threadId ELSE <<"unknown">>,
            fileName |-> Basename(p), state |-> state, absolutePath |-> p,
            relativePath |-> relativePath, provider |-> ""]
  IN {ItemOf(p) : p \in {q \in named : ~isSystemSession(d.files[q])}}

CodexActive(d) == CodexScanRoot(d, sessionsRoot, "active")
\* a mutant of CodexArchived: the archived root is never scanned
CodexArchived_Empty(d) == {}

CodexArchived(d) == CodexScanRoot(d, archivedRoot, "archived")

\* SessionStore.listSessions
CodexListSessions(d) ==
  [items |-> CodexActive(d) \cup CodexArchived(d),
   counts |-> [total |-> Cardinality(CodexActive(d) \cup CodexArchived(d)),
               active |-> Cardinality(CodexActive(d)),
               archived |-> Cardinality(CodexArchived(d))]]

\* ClaudeSessionStore.listSessions: projects/<project>/<sessionId>.jsonl
ClaudeListSessions(d) ==
  LET found == {p \in FilesUnder(d, claudeProjectsRoot) :
                  /\ Len(p) = Len(claudeProjectsRoot) + 2
                  /\ Basename(p)[Len(Basename(p))] = "jsonl"}
      ItemOf(p) ==
        LET fileName == Basename(p)
            sessionId == SubSeq(fileName, 1, Len(fileName) - 1)
        IN [itemId |-> encodeClaudeItemId(sessionId), threadId |-> sessionId,
            fileName |-> fileName, state |-> "active", absolutePath |-> p,
            relativePath |-> Rel(PathRelative(ClaudeHome, p)), provider |-> "claude"]
      items == {ItemOf(p) : p \in found}
  IN [items |-> items, counts |-> [total |-> Cardinality(items)]]

\* GeminiSessionStore.#scanRoot: <root>/<hash>/chats/session-*.json
GeminiScanRoot(d, rootPath, state) ==
  LET found == {p \in FilesUnder(d, rootPath) :
                  /\ Len(p) = Len(rootPath) + 3
                  /\ p[Len(rootPath) + 2] = Seg("chats")
                  /\ Len(Basename(p)) >= 2
                  /\ Basename(p)[1] = "session"
                  /\ Basename(p)[Len(Basename(p))] = "json"}
      ItemOf(p) ==
        LET sessionId == IF d.files[p].kind = "session" THEN d.files[p].sessionId ELSE <<>>
        IN [itemId |-> encodeGeminiItemId(sessionId), threadId |-> sessionId,
            fileName |-> Basename(p), state |-> state, absolutePath |-> p,
            relativePath |-> Rel(PathRelative(GeminiHome, p)), provider |-> "gemini"]
  IN {ItemOf(p) : p \in found}

GeminiActive(d) == GeminiScanRoot(d, geminiProjectsRoot, "active")
GeminiArchived(d) == GeminiScanRoot(d, geminiArchivedRoot, "archived")

\* GeminiSessionStore.listSessions
GeminiListSessions(d) ==
  [items |-> GeminiActive(d) \cup GeminiArchived(d),
   counts |-> [total |-> Cardinality(GeminiActive(d) \cup GeminiArchived(d)),
               active |-> Cardinality(GeminiActive(d)),
               archived |-> Cardinality(GeminiArchived(d))]]

---------------------------------------------------------------------------
(* One call of a store operation, as the sequence of its filesystem calls.  *)
(* A call c is at c.pc; Step(c, d) runs it up to and including its next     *)
(* filesystem call on the disk d and returns the call and the disk after.   *)
(* calls and writes count the filesystem calls issued and those of them     *)
(* that create, move or remove.                                             *)

Call(op, item, trashId, homeRoot) ==
  [op |-> op, pc |-> "start", item |-> item, trashId |-> trashId, home |-> homeRoot,
   src |-> <<>>, dst |-> <<>>, mk |-> <<>>, root |-> <<>>, meta |-> NoMeta,
   err |-> "", from |-> EmptyString, to |-> EmptyString, calls |-> 0, writes |-> 0]

Throw(c, message) == [c EXCEPT !.pc = "done", !.err = message]

Read(c) == [c EXCEPT !.calls = @ + 1]
Wrote(c) == [c EXCEPT !.calls = @ + 1, !.writes = @ + 1]

Outcome(c, d) == [c |-> c, disk |-> d]

\* what follows movePath in the operation
AfterMove(op) ==
  CASE op = "trash" -> "writeFile"
    [] op = "restore" -> "rm"
    [] OTHER -> "done"

\* a mutant of movePathStep: the rename is a copy, the source is never removed
movePathStep_CopyOnly(c, d) ==
  LET copied == CopyFile(d, c.src, c.dst) IN
  IF copied.err # "" THEN Outcome(Throw(Wrote(c), copied.err), d)
  ELSE Outcome([Wrote(c) EXCEPT !.pc = AfterMove(c.op)], copied.disk)

\* the filesystem call movePath issues next
MoveCall(c, d) ==
  IF c.pc = "rename" THEN Rename(d, c.src, c.dst)
  ELSE IF c.pc = "copyFile" THEN CopyFile(d, c.src, c.dst)
  ELSE Unlink(d, c.src)

\* a mutant of movePathAfter: an error of unlink is swallowed
movePathAfter_UnlinkSwallowed(c, d, result) ==
  IF c.pc = "rename" THEN
    IF result.err = "" THEN Outcome([Wrote(c) EXCEPT !.pc = AfterMove(c.op)], result.disk)
    ELSE IF result.err = "EXDEV" THEN Outcome([Wrote(c) EXCEPT !.pc = "copyFile"], result.disk)
    ELSE Outcome(Throw(Wrote(c), result.err), result.disk)
  ELSE IF c.pc = "copyFile" THEN
    IF result.err # "" THEN Outcome(Throw(Wrote(c), result.err), result.disk)
    ELSE Outcome([Wrote(c) EXCEPT !.pc = "unlink"], result.disk)
  ELSE Outcome([Wrote(c) EXCEPT !.pc = AfterMove(c.op)], result.disk)

\* movePath once its filesystem call has returned or thrown: result is
\* [err, disk], the error of the call and the disk it leaves
movePathAfter(c, d, result) ==
  IF c.pc = "rename" THEN
    IF result.err = "" THEN Outcome([Wrote(c) EXCEPT !.pc = AfterMove(c.op)], result.disk)
    ELSE IF result.err = "EXDEV" THEN Outcome([Wrote(c) EXCEPT !.pc = "copyFile"], result.disk)
    ELSE Outcome(Throw(Wrote(c), result.err), result.disk)
  ELSE IF c.pc = "copyFile" THEN
    IF result.err # "" THEN Outcome(Throw(Wrote(c), result.err), result.disk)
    ELSE Outcome([Wrote(c) EXCEPT !.pc = "unlink"], result.disk)
  ELSE
    IF result.err # "" THEN Outcome(Throw(Wrote(c), result.err), result.disk)
    ELSE Outcome([Wrote(c) EXCEPT !.pc = AfterMove(c.op)], result.disk)

\* movePath: rename, and only on EXDEV copyFile then unlink
movePathStep(c, d) == movePathAfter(c, d, MoveCall(c, d))

\* await ensureDir(...) before the move
ensureDirStep(c, d) ==
  LET made == ensureDir(d, c.mk) IN
  IF made.err # "" THEN Outcome(Throw(Wrote(c), made.err), d)
  ELSE Outcome([Wrote(c) EXCEPT !.pc = "rename"], made.disk)

\* the state test, the destination and the exists test shared by the four
\* archiveItem / unarchiveItem methods
CheckThenMove(c, d, wanted, invalid, destinationPath, taken, mk, home) ==
  IF c.item.state # wanted THEN Outcome(Throw(c, invalid), d)
  ELSE IF pathExists(d, destinationPath) THEN Outcome(Throw(Read(c), taken), d)
  ELSE Outcome([Read(c) EXCEPT !.pc = "ensureDir", !.src = c.item.absolutePath,
                               !.dst = destinationPath, !.mk = mk,
                               !.from = c.item.relativePath,
                               !.to = normalizeRelativePath(PathRelative(home, destinationPath))],
               d)

\* a mutant of archiveItemStart: the state of the item is not tested
archiveItemStart_NoStateTest(c, d) ==
  CheckThenMove(c, d, c.item.state, "only active sessions can be archived",
                PathJoin(archivedRoot, <<c.item.fileName>>),
                "archived destination already exists", archivedRoot, CodexHome)

\* a mutant of archiveItemStart: the destination is not tested
archiveItemStart_NoExistsTest(c, d) ==
  IF c.item.state # "active"
  THEN Outcome(Throw(c, "only active sessions can be archived"), d)
  ELSE LET destinationPath == PathJoin(archivedRoot, <<c.item.fileName>>) IN
       Outcome([Read(c) EXCEPT !.pc = "ensureDir", !.src = c.item.absolutePath,
                               !.dst = destinationPath, !.mk = archivedRoot,
                               !.from = c.item.relativePath,
                               !.to = normalizeRelativePath(PathRelative(CodexHome, destinationPath))],
               d)

\* SessionStore.archiveItem up to pathExists(destinationPath)
archiveItemStart(c, d) ==
  CheckThenMove(c, d, "active", "only active sessions can be archived",
                PathJoin(archivedRoot, <<c.item.fileName>>),
                "archived destination already exists", archivedRoot, CodexHome)

\* SessionStore.unarchiveItem up to pathExists(destinationPath)
unarchiveItemStart(c, d) ==
  LET parsed == parseRolloutFilename(c.item.fileName)
      destinationDir == PathJoin(sessionsRoot,
                                 <<Seg(parsed.year), Seg(parsed.month), Seg(parsed.day)>>)
  IN IF c.item.state # "archived"
     THEN Outcome(Throw(c, "only archived sessions can be restored to active"), d)
     ELSE IF ~parsed.ok
     THEN Outcome(Throw(c, "cannot infer date from rollout filename"), d)
     ELSE CheckThenMove(c, d, "archived", "only archived sessions can be restored to active",
                        PathJoin(destinationDir, <<c.item.fileName>>),
                        "active destination already exists", destinationDir, CodexHome)

\* GeminiSessionStore.archiveItem up to pathExists(destinationPath)
geminiArchiveItemStart(c, d) ==
  LET relativeFromRoot == PathRelative(geminiProjectsRoot, c.item.absolutePath)
      destinationPath == PathJoin(geminiArchivedRoot, relativeFromRoot)
  IN CheckThenMove(c, d, "active", "only active sessions can be archived", destinationPath,
                   "archived destination already exists", Dirname(destinationPath), GeminiHome)

\* GeminiSessionStore.unarchiveItem up to pathExists(destinationPath)
geminiUnarchiveItemStart(c, d) ==
  LET relativeFromRoot == PathRelative(geminiArchivedRoot, c.item.absolutePath)
      destinationPath == PathJoin(geminiProjectsRoot, relativeFromRoot)
  IN CheckThenMove(c, d, "archived", "only archived sessions can be restored to active",
                   destinationPath, "active destination already exists",
                   Dirname(destinationPath), GeminiHome)

---------------------------------------------------------------------------
(* The trash store *)

SafeChars ==
  {"A","B","C","D","E","F","G","H","I","J","K","L","M","N","O","P","Q","R","S","T",
   "U","V","W","X","Y","Z","a","b","c","d","e","f","g","h","i","j","k","l","m","n",
   "o","p","q","r","s","t","u","v","w","x","y","z","0","1","2","3","4","5","6","7",
   "8","9","-"}

\* /^[A-Za-z0-9-]+$/ on the characters of the id
\* isSafeTrashId accepting every id that is not empty
isSafeTrashId_NonEmpty(value) == Len(value) >= 1

isSafeTrashId(value) == Len(value) >= 1 /\ \A i \in 1..Len(value) : value[i] \in SafeChars

\* createTrashId: the n-th id handed out; ids are never handed out twice
createTrashId(n) == <<"t", ToString(n)>>

ItemRoot(trashId) == Append(itemsRoot, trashId)
MetadataPath(trashId) == Append(ItemRoot(trashId), Seg("meta.json"))

\* trashSessionItem: payloadRelativePath
PayloadRelativePath(item) ==
  normalizeRelativePath(NormalizeFrom(<<Seg("payload")>>, item.relativePath.segs))

\* TrashStore.trashSessionItem: init(), then (ensureDir, movePath), then writeFile
trashSessionItemStep(c, d) ==
  IF c.pc = "start" THEN
    LET made == ensureDir(d, itemsRoot)
        payloadAbsolutePath == PathJoin(ItemRoot(c.trashId), PayloadRelativePath(c.item).segs)
    IN IF made.err # "" THEN Outcome(Throw(Wrote(c), made.err), d)
       ELSE Outcome([Wrote(c) EXCEPT !.pc = "ensureDir", !.root = ItemRoot(c.trashId),
                                     !.src = c.item.absolutePath,
                                     !.dst = payloadAbsolutePath,
                                     !.mk = Dirname(payloadAbsolutePath)],
                    made.disk)
  ELSE
    LET metadata == Meta("object", c.trashId, c.item, PayloadRelativePath(c.item),
                         now, now + retentionDays, Abs(c.home))
        written == WriteFile(d, MetadataPath(c.trashId), metadata)
    IN IF written.err # "" THEN Outcome(Throw(Wrote(c), written.err), d)
       ELSE Outcome([Wrote(c) EXCEPT !.pc = "done", !.meta = metadata], written.disk)

\* TrashStore.#loadItem: [found, err, metadata]; found is FALSE for null
loadItem(d, trashId) ==
  LET metadataPath == MetadataPath(trashId)
      none == [found |-> FALSE, err |-> "", metadata |-> NoMeta]
  IN IF ~isSafeTrashId(trashId) THEN none
     ELSE IF ~Access(d, metadataPath) THEN none
     ELSE IF IsDir(d, metadataPath) THEN [none EXCEPT !.err = "EISDIR"]
     ELSE LET raw == d.files[metadataPath] IN
          IF raw.kind # "meta" \/ raw.json = "garbage" THEN none
          ELSE IF raw.json = "null" THEN [none EXCEPT !.err = "TypeError"]
          ELSE [found |-> TRUE, err |-> "", metadata |-> raw]

\* TrashStore.#loadItem: payloadExists
PayloadExists(d, trashId, metadata) ==
  LET resolved == resolvePathWithinRoot(ItemRoot(trashId), metadata.payloadRelativePath)
  IN resolved.err = "" /\ pathExists(d, resolved.path)

\* a mutant of RestoreHomeRoot: every item is restored under the Codex home
RestoreHomeRoot_AlwaysCodex(metadata) == CodexHome

\* #restoreOne: metadata.homeRoot || this.codexHome
RestoreHomeRoot(metadata) ==
  IF metadata.homeRoot = EmptyString THEN CodexHome
  ELSE PathResolve(Cwd, metadata.homeRoot)

\* a mutant of restoreOneStep: the slot is removed before the payload is tested
restoreOneStep_RemoveFirst(c, d) ==
  Outcome([Wrote(c) EXCEPT !.pc = "done"], RmRf(d, ItemRoot(c.trashId)).disk)

\* TrashStore.#restoreOne
restoreOneStep(c, d) ==
  IF c.pc = "start" THEN
    LET loaded == loadItem(d, c.trashId) IN
    IF ~isSafeTrashId(c.trashId) THEN Outcome(Throw(c, "trash item not found"), d)
    ELSE IF loaded.err # "" THEN Outcome(Throw(Read(c), loaded.err), d)
    ELSE IF ~loaded.found THEN Outcome(Throw(Read(c), "trash item not found"), d)
    ELSE Outcome([Read(Read(c)) EXCEPT !.pc = "payload", !.meta = loaded.metadata,
                                       !.root = ItemRoot(c.trashId)], d)
  ELSE IF c.pc = "payload" THEN
    LET resolved == resolvePathWithinRoot(c.root, c.meta.payloadRelativePath) IN
    IF resolved.err # "" THEN Outcome(Throw(c, "trash payload path " \o resolved.err), d)
    ELSE IF ~pathExists(d, resolved.path) THEN Outcome(Throw(Read(c), "trash payload is missing"), d)
    ELSE Outcome([Read(c) EXCEPT !.pc = "target", !.src = resolved.path], d)
  ELSE IF c.pc = "target" THEN
    LET restoreHomeRoot == RestoreHomeRoot(c.meta)
        resolved == resolvePathWithinRoot(restoreHomeRoot, c.meta.originalRelativePath)
    IN IF resolved.err # "" THEN Outcome(Throw(c, "restore target path " \o resolved.err), d)
       ELSE IF pathExists(d, resolved.path)
       THEN Outcome(Throw(Read(c), "restore target already exists"), d)
       ELSE Outcome([Read(c) EXCEPT !.pc = "ensureDir", !.dst = resolved.path,
                                    !.mk = Dirname(resolved.path), !.home = restoreHomeRoot,
                                    !.to = normalizeRelativePath(
                                             PathRelative(restoreHomeRoot, resolved.path))],
                    d)
  ELSE
    Outcome([Wrote(c) EXCEPT !.pc = "done"], RmRf(d, c.root).disk)

\* #purgeOne removing the payload of the slot and leaving its record
purgeOneStep_PayloadOnly(c, d) ==
  IF ~isSafeTrashId(c.trashId) THEN Outcome(Throw(c, "invalid trash id"), d)
  ELSE Outcome([Wrote(c) EXCEPT !.pc = "done"],
               RmRf(d, Append(ItemRoot(c.trashId), Seg("payload"))).disk)

\* TrashStore.#purgeOne
purgeOneStep(c, d) ==
  IF ~isSafeTrashId(c.trashId) THEN Outcome(Throw(c, "invalid trash id"), d)
  ELSE Outcome([Wrote(c) EXCEPT !.pc = "done"], RmRf(d, ItemRoot(c.trashId)).disk)

\* the next filesystem call of the call c
Step(c, d) ==
  IF c.pc = "ensureDir" THEN ensureDirStep(c, d)
  ELSE IF c.pc \in {"rename", "copyFile", "unlink"} THEN movePathStep(c, d)
  ELSE CASE c.op = "archive" -> archiveItemStart(c, d)
         [] c.op = "unarchive" -> unarchiveItemStart(c, d)
         [] c.op = "geminiArchive" -> geminiArchiveItemStart(c, d)
         [] c.op = "geminiUnarchive" -> geminiUnarchiveItemStart(c, d)
         [] c.op = "trash" -> trashSessionItemStep(c, d)
         [] c.op = "restore" -> restoreOneStep(c, d)
         [] c.op = "purge" -> purgeOneStep(c, d)

\* the call run to its end with nothing in between
RECURSIVE Run(_, _)
Resume(o) == Run(o.c, o.disk)
Run(c, d) == IF c.pc = "done" THEN Outcome(c, d) ELSE Resume(Step(c, d))

---------------------------------------------------------------------------
(* Batches of the trash store, listTrashItems and cleanupExpired *)

\* what one call of a batch reported, and whether it changed the disk at all
Result(c, before, after) == [call |-> c, changed |-> before # after]

\* results.push(...) of the first id in front of the results of the others
Pushed(first, rest) == [results |-> <<first>> \o rest.results, disk |-> rest.disk]

\* the for loop of TrashStore.restore and TrashStore.purge: #restoreOne or
\* #purgeOne for each id in turn, each in its own try
RECURSIVE Batch(_, _, _)
BatchAfter(op, trashIds, d, o) ==
  Pushed(Result(o.c, d, o.disk), Batch(op, Tail(trashIds), o.disk))
Batch(op, trashIds, d) ==
  IF trashIds = <<>> THEN [results |-> <<>>, disk |-> d]
  ELSE BatchAfter(op, trashIds, d, Run(Call(op, NoItem, Head(trashIds), <<>>), d))

\* TrashStore.restore
restore(trashIds, d) == Batch("restore", trashIds, d)

\* TrashStore.purge
purge(trashIds, d) == Batch("purge", trashIds, d)

Succeeded(results) == SelectSeq(results, LAMBDA r : r.call.err = "")
Failed(results) == SelectSeq(results, LAMBDA r : r.call.err # "")

\* the slot directories fs.readdir(itemsRoot) returns
SlotEntries(d) == {q \in d.dirs : Len(q) = Len(itemsRoot) + 1 /\ Dirname(q) = itemsRoot}

\* listTrashItems: #loadItem(entry.name) of every slot directory
LoadedEntries(d) ==
  {[trashId |-> Basename(q), loaded |-> loadItem(d, Basename(q))] : q \in SlotEntries(d)}

\* listTrashItems with the expiry taken from the retention of the running store
TrashItem_RunningRetention(d, entry) ==
  [slot |-> entry.trashId,
   metadata |-> entry.loaded.metadata,
   payloadExists |-> PayloadExists(d, entry.trashId, entry.loaded.metadata),
   expired |-> entry.loaded.metadata.deletedAt + retentionDays <= now]

\* listTrashItems with an item expired only once its expiry is past
TrashItem_StrictlyPast(d, entry) ==
  [slot |-> entry.trashId,
   metadata |-> entry.loaded.metadata,
   payloadExists |-> PayloadExists(d, entry.trashId, entry.loaded.metadata),
   expired |-> entry.loaded.metadata.expiresAt < now]

\* listTrashItems: one item of the listing
TrashItem(d, entry) ==
  [slot |-> entry.trashId,
   metadata |-> entry.loaded.metadata,
   payloadExists |-> PayloadExists(d, entry.trashId, entry.loaded.metadata),
   expired |-> entry.loaded.metadata.expiresAt <= now]

\* listTrashItems once the slots are read
ListedItems(d, entries) ==
  IF \E entry \in entries : entry.loaded.err # ""
  THEN [err |-> "listing failed", items |-> {}, disk |-> d]
  ELSE [err |-> "",
        items |-> {TrashItem(d, entry) : entry \in {e \in entries : e.loaded.found}},
        disk |-> d]

\* listTrashItems after init()
ListAfterInit(d, made) ==
  IF made.err # "" THEN [err |-> made.err, items |-> {}, disk |-> d]
  ELSE ListedItems(made.disk, LoadedEntries(made.disk))

\* TrashStore.listTrashItems: [err, items, disk]; init() creates the items root
listTrashItems(d) == ListAfterInit(d, ensureDir(d, itemsRoot))

RECURSIVE SeqOfSet(_)
SeqOfSet(S) ==
  IF S = {} THEN <<>>
  ELSE LET x == CHOOSE y \in S : TRUE IN <<x>> \o SeqOfSet(S \ {x})

\* cleanupExpired: expired.map(item => item.trashId)
ExpiredIds(expired) == [i \in 1..Len(expired) |-> expired[i].metadata.trashId]

\* cleanupExpired: the report of the purge of the expired ids
CleanupReport(expiredIds, report) ==
  [err |-> "", expiredCandidates |-> Len(expiredIds), results |-> report.results,
   disk |-> report.disk]

CleanupPurge(expiredIds, d) == CleanupReport(expiredIds, purge(expiredIds, d))

\* cleanupExpired once the trash is listed
CleanupListed(listing) ==
  IF listing.err # ""
  THEN [err |-> listing.err, expiredCandidates |-> 0, results |-> <<>>, disk |-> listing.disk]
  ELSE CleanupPurge(ExpiredIds(SeqOfSet({item \in listing.items : item.expired})), listing.disk)

\* TrashStore.cleanupExpired: purge(item.trashId of every expired item)
cleanupExpired(d) == CleanupListed(listTrashItems(d))

---------------------------------------------------------------------------
(* The disks a run starts from *)

DiskOf(files) ==
  [files |-> files,
   dirs |-> UNION {Prefixes(Dirname(p)) : p \in DOMAIN files}
              \cup Prefixes(CodexHome) \cup Prefixes(ClaudeHome) \cup Prefixes(GeminiHome)]

DayDir(day) == PathJoin(sessionsRoot, <<Seg("2026"), Seg("02"), Seg(day)>>)

ActiveA == Append(DayDir("08"), RolloutName("2026", "02", "08", "tA"))
ArchivedB == Append(archivedRoot, RolloutName("2026", "02", "07", "tB"))
SystemS == Append(DayDir("08"), RolloutName("2026", "02", "08", "tS"))
ClaudeC == claudeProjectsRoot \o <<Seg("-proj"), <<"c1", "jsonl">>>>
GeminiG == geminiProjectsRoot \o <<Seg("h1"), Seg("chats"), <<"session", "g1", "json">>>>
GeminiH == geminiArchivedRoot \o <<Seg("h2"), Seg("chats"), <<"session", "g2", "json">>>>
\* the place of GeminiG under the archived root
GeminiG2 == geminiArchivedRoot \o <<Seg("h1"), Seg("chats"), <<"session", "g1", "json">>>>
\* the same file name as ActiveA, under another date directory
ActiveA2 == Append(DayDir("09"), RolloutName("2026", "02", "08", "tA"))
\* rollout-draft.jsonl: listed, though its name carries no date
ActiveDraft == Append(DayDir("08"), <<"rollout", "draft", "jsonl">>)

\* an active Codex session, a system session and a Claude session
PlainDisk ==
  DiskOf((ActiveA :> Session("bA", FALSE, <<>>))
         @@ (SystemS :> Session("bS", TRUE, <<>>)) @@ (ClaudeC :> Session("bC", FALSE, <<>>)))

\* two active Codex files that carry the same file name
TwinDisk ==
  DiskOf((ActiveA :> Session("bA", FALSE, <<>>)) @@ (ActiveA2 :> Session("bA2", FALSE, <<>>)))

\* an active Codex file whose name does not match the rollout grammar, and an
\* archived Codex session
DraftDisk ==
  DiskOf((ActiveDraft :> Session("bD", FALSE, <<>>)) @@ (ArchivedB :> Session("bB", FALSE, <<>>)))

\* Gemini sessions only: one active, one archived
GeminiDisk ==
  DiskOf((GeminiG :> Session("bG", FALSE, <<"g1">>)) @@ (GeminiH :> Session("bH", FALSE, <<"g2">>)))

\* a Gemini session with a file at the same place under both roots
GeminiTwinDisk ==
  DiskOf((GeminiG :> Session("bG", FALSE, <<"g1">>))
         @@ (GeminiG2 :> Session("bG2", FALSE, <<"g1">>)))

InitialDisks == {PlainDisk, TwinDisk, DraftDisk, GeminiDisk, GeminiTwinDisk}

NoLast == [op |-> "none", errs |-> <<>>]

\* a map without keys
EmptyMap == [x \in {} |-> x]

\* new SessionStore: nothing cached; the version 0 stands for "none"
NewStore == [titleCache |-> EmptyMap, desktopTitleCache |-> [version |-> 0, titles |-> EmptyMap]]

\* a server that listens after a startup sweep that found nothing expired
Listening == [listening |-> TRUE, expiredAtStart |-> {}, failed |-> {}]

\* the retention is none or the longest: while the clock stands, an item is
\* expired when trashed or not at all
Init ==
  /\ disk0 \in InitialDisks
  /\ disk = disk0
  /\ xdev \in BOOLEAN
  /\ retentionDays \in {0, MaxRetention}
  /\ now = 0
  /\ nextId = 0
  /\ lost = {}
  /\ last = NoLast
  /\ reqs = <<>>
  /\ crashed = FALSE
  /\ trashedFrom = <<>>
  /\ tampers = 0
  /\ server = Listening
  /\ store = NewStore
  /\ denied = {}

---------------------------------------------------------------------------
(* The operations, one call at a time *)

Bodies(d) == {d.files[p].body : p \in {q \in DOMAIN d.files : d.files[q].kind = "session"}}

Errs(results) == [i \in 1..Len(results) |-> results[i].call.err]

\* what the operation reported: the error of each call, "" for a success
Did(op, errs) == last' = [op |-> op, errs |-> errs]

\* what a request leaves alone: the configuration, the server process and the
\* caches of the session store
Config == <<disk0, xdev, retentionDays, server, store, denied>>

\* POST /api/sessions/archive -> SessionStore.archiveItem
ArchiveItem ==
  \E item \in CodexListSessions(disk).items :
    \E o \in {Run(Call("archive", item, <<>>, <<>>), disk)} :
    /\ disk' = o.disk
    /\ Did("archive", <<o.c.err>>)
    /\ UNCHANGED <<Config, now, nextId, lost, reqs, crashed, trashedFrom, tampers>>

\* POST /api/sessions/unarchive -> SessionStore.unarchiveItem
UnarchiveItem ==
  \E item \in CodexListSessions(disk).items :
    \E o \in {Run(Call("unarchive", item, <<>>, <<>>), disk)} :
    /\ disk' = o.disk
    /\ Did("unarchive", <<o.c.err>>)
    /\ UNCHANGED <<Config, now, nextId, lost, reqs, crashed, trashedFrom, tampers>>

\* GeminiSessionStore.archiveItem
GeminiArchiveItem ==
  \E item \in GeminiListSessions(disk).items :
    \E o \in {Run(Call("geminiArchive", item, <<>>, <<>>), disk)} :
    /\ disk' = o.disk
    /\ Did("geminiArchive", <<o.c.err>>)
    /\ UNCHANGED <<Config, now, nextId, lost, reqs, crashed, trashedFrom, tampers>>

\* GeminiSessionStore.unarchiveItem
GeminiUnarchiveItem ==
  \E item \in GeminiListSessions(disk).items :
    \E o \in {Run(Call("geminiUnarchive", item, <<>>, <<>>), disk)} :
    /\ disk' = o.disk
    /\ Did("geminiUnarchive", <<o.c.err>>)
    /\ UNCHANGED <<Config, now, nextId, lost, reqs, crashed, trashedFrom, tampers>>

\* the items the delete route can name
Trashable(d) == CodexListSessions(d).items \cup ClaudeListSessions(d).items

\* cli.js POST /api/sessions/delete: the home root the item is trashed from
HomeRootOf(item) == IF item.provider = "claude" THEN ClaudeHome ELSE CodexHome

\* POST /api/sessions/delete -> TrashStore.trashSessionItem
DeleteItem ==
  \E item \in CodexListSessions(disk).items \cup ClaudeListSessions(disk).items :
    \E o \in {Run(Call("trash", item, createTrashId(nextId + 1), HomeRootOf(item)), disk)} :
    /\ nextId < MaxTrash
    /\ nextId' = nextId + 1
    /\ disk' = o.disk
    /\ trashedFrom' = Append(trashedFrom, HomeRootOf(item))
    /\ Did("trash", <<o.c.err>>)
    /\ UNCHANGED <<Config, now, lost, reqs, crashed, tampers>>

\* a malformed id, as a request may carry one
BadId == <<".", ".">>
\* the ids a request names: those handed out so far, and a malformed one
RequestIds == {createTrashId(n) : n \in 1..nextId} \cup {BadId}
\* one id, malformed or not, or two ids handed out (the same one twice, or two
\* in either order)
IdBatches ==
  {<<a>> : a \in RequestIds}
    \cup {<<a, b>> : a \in RequestIds \ {BadId}, b \in RequestIds \ {BadId}}

\* POST /api/trash/restore -> TrashStore.restore
Restore ==
  \E trashIds \in IdBatches :
    \E report \in {restore(trashIds, disk)} :
    /\ disk' = report.disk
    /\ Did("restore", Errs(report.results))
    /\ UNCHANGED <<Config, now, nextId, lost, reqs, crashed, trashedFrom, tampers>>

\* POST /api/trash/purge -> TrashStore.purge
Purge ==
  \E trashIds \in IdBatches :
    \E report \in {purge(trashIds, disk)} :
    /\ disk' = report.disk
    /\ lost' = lost \cup (Bodies(disk) \ Bodies(report.disk))
    /\ Did("purge", Errs(report.results))
    /\ UNCHANGED <<Config, now, nextId, reqs, crashed, trashedFrom, tampers>>

\* POST /api/trash/cleanup, startServer, runCleanup -> TrashStore.cleanupExpired
CleanupExpired ==
  \E report \in {cleanupExpired(disk)} :
  /\ disk' = report.disk
  /\ lost' = lost \cup (Bodies(disk) \ Bodies(report.disk))
  /\ Did("cleanup", <<report.err>> \o Errs(report.results))
  /\ UNCHANGED <<Config, now, nextId, reqs, crashed, trashedFrom, tampers>>

Next ==
  \/ ArchiveItem
  \/ UnarchiveItem
  \/ GeminiArchiveItem
  \/ GeminiUnarchiveItem
  \/ DeleteItem
  \/ Restore
  \/ Purge
  \/ CleanupExpired

Spec == Init /\ [][Next]_vars

---------------------------------------------------------------------------
(* Hand edits of the trash directory: meta.json is plain JSON on disk *)

Elsewhere == <<Seg("elsewhere")>>

\* what an edit may leave in homeRoot, originalRelativePath, payloadRelativePath
EditedHomeRoots == {EmptyString, Abs(CodexHome), Abs(ClaudeHome), Abs(Elsewhere)}
EditedOriginalPaths ==
  {EmptyString, BlankString, Rel(<<DotDot, DotDot, Seg("escaped.jsonl")>>),
   Abs(<<Seg("elsewhere"), Seg("escaped.jsonl")>>), Rel(<<Seg("moved.jsonl")>>),
   Rel(PathRelative(CodexHome, SystemS))}
EditedPayloadPaths ==
  {EmptyString, Rel(<<Dot>>), Rel(<<Seg("meta.json")>>),
   Rel(<<DotDot, DotDot, DotDot, Seg("outside.jsonl")>>)}

\* the records one edit of the metadata record m can leave
Edits(m) ==
  {[m EXCEPT !.homeRoot = h] : h \in EditedHomeRoots}
    \cup {[m EXCEPT !.originalRelativePath = r] : r \in EditedOriginalPaths}
    \cup {[m EXCEPT !.payloadRelativePath = r] : r \in EditedPayloadPaths}
    \cup {[m EXCEPT !.json = j] : j \in {"null", "garbage"}}

\* the payload files of the slot trashId
PayloadFiles(d, trashId) ==
  {p \in DOMAIN d.files : IsPrefix(Append(ItemRoot(trashId), Seg("payload")), p)}

\* the slots that hold a metadata record
SlotsWithMeta(d) ==
  {n \in 1..nextId : /\ IsFile(d, MetadataPath(createTrashId(n)))
                     /\ d.files[MetadataPath(createTrashId(n))].kind = "meta"}

\* somebody rewrites one field of a meta.json
EditMetadata ==
  /\ tampers < MaxTampers
  /\ \E n \in SlotsWithMeta(disk) :
       \E edited \in Edits(disk.files[MetadataPath(createTrashId(n))]) :
         /\ edited # disk.files[MetadataPath(createTrashId(n))]
         /\ disk' = [disk EXCEPT !.files[MetadataPath(createTrashId(n))] = edited]
  /\ tampers' = tampers + 1
  /\ UNCHANGED <<Config, now, nextId, lost, last, reqs, crashed, trashedFrom>>

\* somebody removes the payload of a slot and leaves its meta.json
RemovePayload ==
  /\ tampers < MaxTampers
  /\ \E n \in SlotsWithMeta(disk) :
       /\ \E p \in DOMAIN disk.files :
            IsPrefix(Append(ItemRoot(createTrashId(n)), Seg("payload")), p)
       /\ disk' = RmRf(disk, Append(ItemRoot(createTrashId(n)), Seg("payload"))).disk
  /\ tampers' = tampers + 1
  /\ UNCHANGED <<Config, now, nextId, lost, last, reqs, crashed, trashedFrom>>

\* POST /api/trash/restore with one id
RestoreOne ==
  \E trashId \in RequestIds :
    \E report \in {restore(<<trashId>>, disk)} :
      /\ disk' = report.disk
      /\ Did("restore", Errs(report.results))
      /\ UNCHANGED <<Config, now, nextId, lost, reqs, crashed, trashedFrom, tampers>>

\* deletes and restores, with the edits in between
NextTamper == DeleteItem \/ RestoreOne \/ EditMetadata \/ RemovePayload

\* the runs with edits start from the Codex and Claude homes: nothing of the
\* Gemini store reaches the trash, and neither the retention nor the device of
\* the trash plays a part in what restore checks
InitTamper ==
  /\ Init
  /\ disk0 \in {PlainDisk, DraftDisk}
  /\ retentionDays = MaxRetention
  /\ ~xdev

SpecTamper == InitTamper /\ [][NextTamper]_vars

---------------------------------------------------------------------------
(* Two requests in flight: the server awaits every filesystem call, so the  *)
(* calls of two requests interleave one filesystem call at a time.  A       *)
(* request is [todo, done]: the calls still to run, the first of them in    *)
(* progress, and the calls that have returned or thrown.                    *)

\* the non-empty sequences without repeats of at most maxLen members of S
Batches(S, maxLen) ==
  {<<a>> : a \in S} \cup
  (IF maxLen < 2 THEN {} ELSE {pair \in S \X S : pair[1] # pair[2]})

\* runSessionBatch / runMultiSourceBatch: action(item) for each item found;
\* the trash ids of a delete request are numbered from n + 1
BatchCalls(op, items, n) ==
  [k \in 1..Len(items) |->
     IF op = "trash" THEN Call(op, items[k], createTrashId(n + k), HomeRootOf(items[k]))
     ELSE Call(op, items[k], <<>>, <<>>)]

\* TrashStore.restore: #restoreOne for each id
RestoreCalls(trashIds) ==
  [k \in 1..Len(trashIds) |-> Call("restore", NoItem, trashIds[k], <<>>)]

\* the requests of at most maxLen items a client can send once it has listed d
Requests(d, n, maxLen) ==
  {BatchCalls(op, items, n) :
     op \in {"archive", "unarchive"}, items \in Batches(CodexListSessions(d).items, maxLen)}
    \cup {BatchCalls("trash", items, n) : items \in Batches(Trashable(d), maxLen)}
    \cup {RestoreCalls(trashIds) : trashIds \in Batches(RequestIds, maxLen)}

\* the home roots of the trash ids n + 1 .. n + MaxBatch handed to the calls
HomesOf(calls) == [k \in 1..MaxBatch |-> IF k <= Len(calls) THEN calls[k].home ELSE <<>>]

\* two requests arrive; each has looked its items up on the disk as it is now
Submit ==
  /\ ~crashed
  /\ reqs = <<>>
  /\ \E first \in Requests(disk, nextId, 1), second \in Requests(disk, nextId + MaxBatch, MaxBatch) :
       /\ reqs' = <<[todo |-> first, done |-> <<>>], [todo |-> second, done |-> <<>>]>>
       /\ trashedFrom' = trashedFrom \o HomesOf(first) \o HomesOf(second)
  /\ nextId' = nextId + 2 * MaxBatch
  /\ last' = [op |-> "submit", errs |-> <<>>]
  /\ UNCHANGED <<Config, disk, now, lost, crashed, tampers>>

\* the request i runs up to and including its next filesystem call
StepRequest(i) ==
  /\ ~crashed
  /\ reqs[i].todo # <<>>
  /\ \E o \in {Step(Head(reqs[i].todo), disk)} :
       /\ disk' = o.disk
       /\ reqs' = [reqs EXCEPT ![i] =
                     IF o.c.pc = "done"
                     THEN [todo |-> Tail(@.todo), done |-> Append(@.done, o.c)]
                     ELSE [todo |-> <<o.c>> \o Tail(@.todo), done |-> @.done]]
       /\ last' = [op |-> "step", errs |-> <<o.c.err>>]
  /\ UNCHANGED <<Config, now, nextId, lost, crashed, trashedFrom, tampers>>

Advance == \E i \in DOMAIN reqs : StepRequest(i)

\* the process stops between two filesystem calls of a request
Crash ==
  /\ ~crashed
  /\ \E i \in DOMAIN reqs : reqs[i].todo # <<>>
  /\ crashed' = TRUE
  /\ last' = [op |-> "crash", errs |-> <<>>]
  /\ UNCHANGED <<Config, disk, now, nextId, lost, reqs, trashedFrom, tampers>>

\* the listed item of the file p
ItemAt(d, p) == CHOOSE item \in Trashable(d) : item.absolutePath = p

\* PlainDisk after its active Codex session went to the trash
TrashedDisk ==
  Run(Call("trash", ItemAt(PlainDisk, ActiveA), createTrashId(1), CodexHome), PlainDisk).disk

\* the starts of the interleaved runs: the disk and the trash ids handed out
RaceStarts ==
  {[disk |-> PlainDisk, trashedFrom |-> <<>>],
   [disk |-> DraftDisk, trashedFrom |-> <<>>],
   [disk |-> TrashedDisk, trashedFrom |-> <<CodexHome>>]}

InitRace ==
  /\ xdev \in BOOLEAN
  /\ retentionDays = MaxRetention
  /\ now = 0
  /\ \E start \in RaceStarts :
       /\ disk0 = start.disk
       /\ trashedFrom = start.trashedFrom
       /\ nextId = Len(start.trashedFrom)
  /\ disk = disk0
  /\ lost = {}
  /\ last = NoLast
  /\ reqs = <<>>
  /\ crashed = FALSE
  /\ tampers = 0
  /\ server = Listening
  /\ store = NewStore
  /\ denied = {}

NextRace == Submit \/ Advance \/ Crash

SpecRace == InitRace /\ [][NextRace]_vars

---------------------------------------------------------------------------
(* Restore and the metadata record (SpecTamper) *)

\* the files that are neither under root nor under the trash root
OutsideFiles(d, root) ==
  [p \in {q \in DOMAIN d.files : ~IsPrefix(root, q) /\ ~IsPrefix(TrashRoot, q)} |-> d.files[p]]

\* #restoreOne of the n-th trash id on the disk d
RestoreOutcome(n, d) == Run(Call("restore", NoItem, createTrashId(n), <<>>), d)

\* C1: whatever the metadata record of a slot holds, restore of that id either
\* fails or moves the payload to a path inside the home root the item was
\* trashed from, and it changes no file outside that root.
C1_RestoreStaysInsideOriginalHome ==
  \A n \in 1..nextId :
    \E o \in {RestoreOutcome(n, disk)} :
      /\ OutsideFiles(o.disk, trashedFrom[n]) = OutsideFiles(disk, trashedFrom[n])
      /\ o.c.err # "" \/ IsPrefix(trashedFrom[n], o.c.dst)

\* the errors #restoreOne throws from its own checks
CheckFailures ==
  {"trash item not found",
   "trash payload path is missing", "trash payload path escapes allowed root",
   "trash payload is missing",
   "restore target path is missing", "restore target path escapes allowed root",
   "restore target already exists"}

\* the restore o of a slot was stopped by a check: one of its own, or meta.json
\* could not be read or holds no object (loaded is what #loadItem made of it)
StoppedByCheck(o, loaded) ==
  \/ o.c.err \in CheckFailures
  \/ (loaded.err # "" /\ o.c.err = loaded.err)

\* both paths of the slot trashId, loaded from its meta.json, pass the
\* containment guard
BothPathsValid(loaded, trashId) ==
  /\ loaded.found
  /\ resolvePathWithinRoot(ItemRoot(trashId), loaded.metadata.payloadRelativePath).err = ""
  /\ resolvePathWithinRoot(RestoreHomeRoot(loaded.metadata),
                           loaded.metadata.originalRelativePath).err = ""

\* what a restore of each id alone makes of the disk d
RestoredAlone(d) == [b \in RequestIds |-> Run(Call("restore", NoItem, b, <<>>), d)]

\* C2: restore creates, moves or removes something only after both paths have
\* passed the guard; when a check fails the id is reported failed, the disk is
\* left as it was, and the other id of the batch fares as it would alone.
C2_FailedCheckChangesNothing ==
  \E alone \in {RestoredAlone(disk)} :
    \A a \in RequestIds :
      \E loaded \in {loadItem(disk, a)} :
        /\ alone[a].c.writes > 0 => BothPathsValid(loaded, a)
        /\ loaded.err # "" => alone[a].c.err # ""
        /\ StoppedByCheck(alone[a], loaded) =>
             /\ alone[a].disk = disk
             /\ alone[a].c.writes = 0
             /\ \A b \in RequestIds :
                  \E report \in {restore(<<a, b>>, disk)} :
                    /\ report.results[1].call.err = alone[a].c.err
                    /\ ~report.results[1].changed
                    /\ report.results[2].call = alone[b].c

\* a restore has just been refused for its target path, and the slot and its
\* payload are still there
C2_Witness ==
  /\ last = [op |-> "restore", errs |-> <<"restore target path escapes allowed root">>]
  /\ \E n \in SlotsWithMeta(disk) : PayloadFiles(disk, createTrashId(n)) # {}

---------------------------------------------------------------------------
(* Soft delete and the trash round trip (Spec) *)

\* the session files of the disk d that hold the conversation body
FilesOf(d, body) ==
  {p \in DOMAIN d.files : d.files[p].kind = "session" /\ d.files[p].body = body}

ActiveRoots == {sessionsRoot, claudeProjectsRoot, geminiProjectsRoot}
ArchivedRoots == {archivedRoot, geminiArchivedRoot}

\* p is the payload of a trash slot that has a metadata record
InListedSlot(d, p) ==
  \E n \in 1..nextId :
    /\ IsPrefix(Append(ItemRoot(createTrashId(n)), Seg("payload")), p)
    /\ loadItem(d, createTrashId(n)).found

\* C3: whatever archive, unarchive, delete and restore calls have run, every
\* session file of the start that no purge or cleanup removed is in exactly
\* one place: under an active root, under an archived root, or in the payload
\* of a trash slot with a metadata record.
C3_SoftDeleteKeepsEveryFile ==
  \A body \in Bodies(disk0) \ lost :
    /\ Cardinality(FilesOf(disk, body)) = 1
    /\ \A p \in FilesOf(disk, body) :
         \/ \E root \in ActiveRoots \cup ArchivedRoots : IsPrefix(root, p)
         \/ InListedSlot(disk, p)

\* one file of the start is in the trash, another is archived, and a restore
\* has just put a third one back
C3_Witness ==
  /\ last = [op |-> "restore", errs |-> <<"">>]
  /\ lost = {}
  /\ \E p \in DOMAIN disk.files : InListedSlot(disk, p)
  /\ \E p \in DOMAIN disk.files : IsPrefix(archivedRoot, p) /\ p \notin DOMAIN disk0.files

\* trashSessionItem(item, homeRoot) with the next fresh id on the disk d
TrashOutcome(item, d) ==
  Run(Call("trash", item, createTrashId(nextId + 1), HomeRootOf(item)), d)

\* what C4 says of the disk after the trash call t of item and the restore r
RoundTrip(item, t, r) ==
  /\ t.c.err = ""
  /\ item \notin Trashable(t.disk)
  /\ \E listed \in listTrashItems(t.disk).items :
       /\ listed.metadata.trashId = t.c.trashId
       /\ listed.payloadExists
  /\ r.c.err = ""
  /\ r.c.to = item.relativePath
  /\ IsPrefix(HomeRootOf(item), r.c.dst)
  /\ r.disk.files = disk.files
  /\ item \in Trashable(r.disk)
  /\ ~pathExists(r.disk, ItemRoot(t.c.trashId))

\* C4: trashing a listed Codex or Claude item takes it out of listSessions and
\* into listTrashItems; restoring the returned id puts the file back at its
\* relative path under the same home, listed with its former state, and the
\* slot is gone.
C4_TrashRestoreRoundTrip ==
  \A item \in Trashable(disk) :
    \E t \in {TrashOutcome(item, disk)} :
      \E r \in {Run(Call("restore", NoItem, t.c.trashId, <<>>), t.disk)} :
        RoundTrip(item, t, r)

\* a Claude session went to the trash across devices and a restore has put
\* every file back where the run started
C4_Witness ==
  /\ last = [op |-> "restore", errs |-> <<"">>]
  /\ xdev
  /\ nextId >= 1
  /\ \E n \in 1..nextId : trashedFrom[n] = ClaudeHome
  /\ disk.files = disk0.files

---------------------------------------------------------------------------
(* One location per conversation (Spec) *)

SessionFilesUnder(d, root) == {p \in FilesUnder(d, root) : d.files[p].kind = "session"}

\* the conversations with a file under root: the file name carries the thread id
ConversationsUnder(d, root) == {Basename(p) : p \in SessionFilesUnder(d, root)}

\* no conversation has a file under the active and under the archived root
NoneUnderBothRoots(d) ==
  /\ ConversationsUnder(d, sessionsRoot) \cap ConversationsUnder(d, archivedRoot) = {}
  /\ ConversationsUnder(d, geminiProjectsRoot)
       \cap ConversationsUnder(d, geminiArchivedRoot) = {}

\* every listed item has one state, the one of the root its file is under
OneStatePerItem(d) ==
  \A item \in CodexListSessions(d).items \cup GeminiListSessions(d).items :
    /\ item.state \in {"active", "archived"}
    /\ item.state = "active" <=>
         (IsPrefix(sessionsRoot, item.absolutePath)
            \/ IsPrefix(geminiProjectsRoot, item.absolutePath))
    /\ item.state = "archived" <=>
         (IsPrefix(archivedRoot, item.absolutePath)
            \/ IsPrefix(geminiArchivedRoot, item.absolutePath))

\* no two session files of the disk d carry the same file name
UniqueFileNames(d) ==
  \A p, q \in SessionFilesUnder(d, <<>>) : Basename(p) = Basename(q) => p = q

\* C5 as stated: from a start where no conversation is under both roots, no
\* sequence of calls puts a conversation under both roots, and every listed
\* item has exactly one state.
C5_NeverUnderBothRoots ==
  NoneUnderBothRoots(disk0) => (NoneUnderBothRoots(disk) /\ OneStatePerItem(disk))

\* C5: from a start where no two session files carry the same file name, no
\* sequence of calls puts a conversation under both the active and the
\* archived root, and every listed item has exactly one state.
C5_UniqueNamesNeverUnderBothRoots ==
  UniqueFileNames(disk0) => (NoneUnderBothRoots(disk) /\ OneStatePerItem(disk))

\* from such a start: a delete has happened, a file that started active is
\* archived and an archive call has just succeeded
C5_Witness ==
  /\ UniqueFileNames(disk0)
  /\ nextId >= 1
  /\ last = [op |-> "archive", errs |-> <<"">>]
  /\ \E p \in SessionFilesUnder(disk, archivedRoot) : p \notin DOMAIN disk0.files

---------------------------------------------------------------------------
(* Two requests on one session file, and a stop inside a delete (SpecRace) *)

\* every call of both requests has returned or thrown
Finished == reqs # <<>> /\ \A i \in DOMAIN reqs : reqs[i].todo = <<>>

\* the session file the call c acts on, as the disk was when the requests came
TargetOf(c) ==
  IF c.op = "restore" THEN PayloadFiles(disk0, c.trashId) ELSE {c.item.absolutePath}

\* the call c as it was handed to the store
Restart(c) == Call(c.op, c.item, c.trashId, IF c.op = "trash" THEN c.home ELSE <<>>)

\* c is a mover: run alone on the disk of the lookup it would have succeeded
SucceedsAlone(c) == Run(Restart(c), disk0).c.err = ""

Range(f) == {f[k] : k \in DOMAIN f}

\* what C6 says of the calls a and b of the two requests, once both are done
OneMoverWins(a, b) ==
  /\ (a.err = "") # (b.err = "")
  /\ \A p \in TargetOf(a) \cap TargetOf(b) :
       Cardinality(FilesOf(disk, disk0.files[p].body)) = 1

\* C6: when two requests that looked the same session file up before either
\* moved it have both run to their end, exactly one of the two calls on that
\* file has succeeded, the other has failed for that item only, and the file
\* is in exactly one location.
C6_ExactlyOneMoverSucceeds ==
  Finished =>
    \A a \in Range(reqs[1].done), b \in Range(reqs[2].done) :
      (TargetOf(a) \cap TargetOf(b) # {} /\ SucceedsAlone(a) /\ SucceedsAlone(b))
        => OneMoverWins(a, b)

\* the session of item is where it was, or in a slot that listTrashItems
\* returns and whose restore puts it back
Recoverable(item) ==
  \/ /\ IsFile(disk, item.absolutePath)
     /\ disk.files[item.absolutePath] = disk0.files[item.absolutePath]
  \/ \E listed \in listTrashItems(disk).items :
       /\ listed.payloadExists
       /\ \E r \in {Run(Call("restore", NoItem, listed.metadata.trashId, <<>>), disk)} :
            /\ r.c.err = ""
            /\ IsFile(r.disk, item.absolutePath)
            /\ r.disk.files[item.absolutePath] = disk0.files[item.absolutePath]

\* only the first request has run, and it is a delete
OnlyDeleteRan ==
  /\ reqs # <<>>
  /\ reqs[2].done = <<>>
  /\ \A c \in Range(reqs[2].todo) : c.pc = "start"
  /\ \A c \in Range(reqs[1].todo) \cup Range(reqs[1].done) : c.op = "trash"

\* C7: when the process stops between two filesystem calls of a delete, the
\* session of every item of that delete is recoverable.
C7_StoppedDeleteIsRecoverable ==
  (crashed /\ OnlyDeleteRan) =>
    \A c \in Range(reqs[1].todo) \cup Range(reqs[1].done) : Recoverable(c.item)

---------------------------------------------------------------------------
(* Archive and unarchive (Spec) *)

\* the session files under the active and the archived root together
FilesAcross(d, activeRoot, archiveRoot) ==
  Cardinality(SessionFilesUnder(d, activeRoot) \cup SessionFilesUnder(d, archiveRoot))

\* counts.active is one lower and counts.archived one higher in after
ShiftedByOne(before, after) ==
  /\ after.active = before.active - 1
  /\ after.archived = before.archived + 1
  /\ after.total = before.total

\* the listed item of the store whose file is at p
ListedAt(items, p) == {item \in items : item.absolutePath = p}

\* the archive a of a Codex item did what C8 says, and so did the unarchive of
\* the item then listed at the destination; mustSucceed tells when the
\* unarchive is required to succeed
CodexRoundTrip(a, mustSucceed) ==
  /\ ShiftedByOne(CodexListSessions(disk).counts, CodexListSessions(a.disk).counts)
  /\ FilesAcross(a.disk, sessionsRoot, archivedRoot) = FilesAcross(disk, sessionsRoot, archivedRoot)
  /\ ListedAt(CodexArchived(a.disk), a.c.dst) # {}
  /\ \A archived \in ListedAt(CodexArchived(a.disk), a.c.dst) :
       \E u \in {Run(Call("unarchive", archived, <<>>, <<>>), a.disk)} :
         /\ mustSucceed => u.c.err = ""
         /\ u.c.err = "" =>
              /\ CodexListSessions(u.disk).counts = CodexListSessions(disk).counts
              /\ FilesAcross(u.disk, sessionsRoot, archivedRoot)
                   = FilesAcross(disk, sessionsRoot, archivedRoot)

\* the same for the Gemini store
GeminiRoundTrip(a, mustSucceed) ==
  /\ ShiftedByOne(GeminiListSessions(disk).counts, GeminiListSessions(a.disk).counts)
  /\ FilesAcross(a.disk, geminiProjectsRoot, geminiArchivedRoot)
       = FilesAcross(disk, geminiProjectsRoot, geminiArchivedRoot)
  /\ ListedAt(GeminiArchived(a.disk), a.c.dst) # {}
  /\ \A archived \in ListedAt(GeminiArchived(a.disk), a.c.dst) :
       \E u \in {Run(Call("geminiUnarchive", archived, <<>>, <<>>), a.disk)} :
         /\ mustSucceed => u.c.err = ""
         /\ u.c.err = "" =>
              /\ GeminiListSessions(u.disk).counts = GeminiListSessions(disk).counts
              /\ FilesAcross(u.disk, geminiProjectsRoot, geminiArchivedRoot)
                   = FilesAcross(disk, geminiProjectsRoot, geminiArchivedRoot)

ActivePathFree(d, fileName) ==
  \E parsed \in {parseRolloutFilename(fileName)} :
    ~pathExists(d, sessionsRoot \o <<Seg(parsed.year), Seg(parsed.month), Seg(parsed.day),
                                     fileName>>)

InvalidArchive == "only active sessions can be archived"
InvalidUnarchive == "only archived sessions can be restored to active"

\* the call o was refused for the state of its item before any filesystem call
RefusedUntouched(o, message) ==
  /\ o.c.err = message
  /\ o.c.calls = 0
  /\ o.disk = disk

MovedTo(item, dst, after) ==
  /\ ~IsFile(after, item.absolutePath)
  /\ IsFile(after, dst)
  /\ after.files[dst] = disk.files[item.absolutePath]
  /\ Without(after.files, {dst}) = Without(disk.files, {item.absolutePath})

\* what C10 says of the call o that moves item to the destination dst under
\* the root of home: refused when dst is taken, else moved
NeverOverwrites(o, item, dst, home, taken) ==
  IF pathExists(disk, dst)
  THEN /\ o.c.err = taken
       /\ o.disk = disk
  ELSE /\ o.c.err = ""
       /\ MovedTo(item, dst, o.disk)
       /\ Basename(dst) = item.fileName
       /\ o.c.from = item.relativePath
       /\ o.c.to = Rel(PathRelative(home, dst))

\* sessions/<year>/<month>/<day>/<fileName>, the dates read off the file name
DatedPath(fileName) == sessionsRoot \o <<Seg(fileName[2]), Seg(fileName[3]), Seg(fileName[4]), fileName>>

\* the path of p with the root from replaced by the root to
Swapped(p, from, to) == to \o SubSeq(p, Len(from) + 1, Len(p))

\* C10: archiveItem and unarchiveItem fail with the destination-exists error
\* and change nothing when a file is at the destination they compute;
\* otherwise they move the file there, under the other root, keep its file
\* name and return the relative source and destination paths.
C10_MoveNeverOverwrites ==
  /\ \A item \in CodexActive(disk) :
       NeverOverwrites(Run(Call("archive", item, <<>>, <<>>), disk), item,
                       Append(archivedRoot, item.fileName), CodexHome,
                       "archived destination already exists")
  /\ \A item \in CodexArchived(disk) :
       MatchesRolloutPattern(item.fileName) =>
         NeverOverwrites(Run(Call("unarchive", item, <<>>, <<>>), disk), item,
                         DatedPath(item.fileName), CodexHome,
                         "active destination already exists")
  /\ \A item \in GeminiActive(disk) :
       NeverOverwrites(Run(Call("geminiArchive", item, <<>>, <<>>), disk), item,
                       Swapped(item.absolutePath, geminiProjectsRoot, geminiArchivedRoot),
                       GeminiHome, "archived destination already exists")
  /\ \A item \in GeminiArchived(disk) :
       NeverOverwrites(Run(Call("geminiUnarchive", item, <<>>, <<>>), disk), item,
                       Swapped(item.absolutePath, geminiArchivedRoot, geminiProjectsRoot),
                       GeminiHome, "active destination already exists")

\* an archive has just been refused because the archived root already holds
\* a file of that name
C10_Witness ==
  /\ last = [op |-> "archive", errs |-> <<"archived destination already exists">>]
  /\ \E item \in CodexActive(disk) : IsFile(disk, Append(archivedRoot, item.fileName))

---------------------------------------------------------------------------
(* The destination of unarchiveItem (Spec) *)

UnparsableLocation == "cannot infer date from rollout filename"

\* the archived item as a caller could hand it over with every field but the
\* state, the file name and the path of the file blanked
NameOnly(item) ==
  [NoItem EXCEPT !.state = item.state, !.fileName = item.fileName,
                 !.absolutePath = item.absolutePath]

\* the unarchive o of the archived item, whose name matches the grammar, went
\* to the dated path of the name or was refused because that path is taken
UnarchivedByName(o, item) ==
  /\ o.c.err \in {"", "active destination already exists"}
  /\ o.c.err = "" <=> ~pathExists(disk, DatedPath(item.fileName))
  /\ o.c.err = "" =>
       /\ o.c.dst = DatedPath(item.fileName)
       /\ MovedTo(item, DatedPath(item.fileName), o.disk)
       /\ Run(Call("unarchive", NameOnly(item), <<>>, <<>>), disk).disk = o.disk

\* the unarchive o of the archived item, whose name does not match the
\* grammar, was refused and the file is where it was
UnarchiveUnparsable(o, item) ==
  /\ o.c.err = UnparsableLocation
  /\ o.c.writes = 0
  /\ o.disk = disk
  /\ IsFile(o.disk, item.absolutePath)
  /\ IsPrefix(archivedRoot, item.absolutePath)

\* C11: unarchiveItem of an archived item whose name is
\* rollout-YYYY-MM-DDThh-mm-ss-<threadId>.jsonl moves the file to
\* sessions/YYYY/MM/DD/<same name> (or refuses when that path is taken),
\* whatever else the item holds; a name outside that grammar makes it fail
\* with the unparsable-location error and the file stays in the archived root.
C11_DestinationFromFileName ==
  \A item \in CodexArchived(disk) :
    \E o \in {Run(Call("unarchive", item, <<>>, <<>>), disk)} :
      IF MatchesRolloutPattern(item.fileName)
      THEN UnarchivedByName(o, item)
      ELSE UnarchiveUnparsable(o, item)

\* an unarchive has just been refused for a name without a date, while the
\* archived root also holds a file whose name carries one
C11_Witness ==
  /\ last = [op |-> "unarchive", errs |-> <<UnparsableLocation>>]
  /\ \E item \in CodexArchived(disk) : ~MatchesRolloutPattern(item.fileName)
  /\ \E item \in CodexArchived(disk) : MatchesRolloutPattern(item.fileName)

---------------------------------------------------------------------------
(* Batches of item ids: findItemsByIds, runSessionBatch, runMultiSourceBatch *)

\* new Map(items.map(item => [item.itemId, item])).get(itemId), as a set
ById(items, itemId) == {item \in items : item.itemId = itemId}

\* a mutant of FoundOrMissing: an id that is not listed is dropped
FoundOrMissing_DropMissing(itemId, items, rest) ==
  IF ById(items, itemId) # {}
  THEN [found |-> <<CHOOSE item \in ById(items, itemId) : TRUE>> \o rest.found,
        missing |-> rest.missing]
  ELSE rest

\* findItemsByIds: found.push(item) or missing.push(itemId), in front of rest
FoundOrMissing(itemId, items, rest) ==
  IF ById(items, itemId) # {}
  THEN [found |-> <<CHOOSE item \in ById(items, itemId) : TRUE>> \o rest.found,
        missing |-> rest.missing]
  ELSE [found |-> rest.found, missing |-> <<itemId>> \o rest.missing]

\* SessionStore.findItemsByIds / ClaudeSessionStore.findItemsByIds on a listing
RECURSIVE findItemsByIds(_, _)
findItemsByIds(itemIds, items) ==
  IF itemIds = <<>> THEN [found |-> <<>>, missing |-> <<>>]
  ELSE FoundOrMissing(Head(itemIds), items, findItemsByIds(Tail(itemIds), items))

\* findItemAcrossStores: codexResult and claudeResult, concatenated
Concatenated(codexResult, claudeResult) ==
  [found |-> codexResult.found \o claudeResult.found,
   missing |-> codexResult.missing \o claudeResult.missing]

\* findItemAcrossStores, the stores listing codexItems and claudeItems: the
\* Claude ids go to the Claude store, the rest to the Codex store
findItemAcrossStores(itemIds, codexItems, claudeItems) ==
  Concatenated(
    findItemsByIds(SelectSeq(itemIds, LAMBDA id : ~isClaudeItemId(id)), codexItems),
    findItemsByIds(SelectSeq(itemIds, LAMBDA id : isClaudeItemId(id)), claudeItems))

\* for (const item of selection.found): action(item) in its own try, in turn
RECURSIVE RunCalls(_, _)
\* a mutant of RunCallsAfter: the loop ends at the first action that throws
RunCallsAfter_StopOnError(calls, d, o) ==
  IF o.c.err # "" THEN [results |-> <<Result(o.c, d, o.disk)>>, disk |-> o.disk]
  ELSE Pushed(Result(o.c, d, o.disk), RunCalls(Tail(calls), o.disk))

RunCallsAfter(calls, d, o) == Pushed(Result(o.c, d, o.disk), RunCalls(Tail(calls), o.disk))
RunCalls(calls, d) ==
  IF calls = <<>> THEN [results |-> <<>>, disk |-> d]
  ELSE RunCallsAfter(calls, d, Run(Head(calls), d))

\* report.failed.push({itemId: missingId, error: "session not found"})
MissingEntries(missing) ==
  [i \in 1..Len(missing) |-> [itemId |-> missing[i], error |-> "session not found"]]

\* report.succeeded.push / report.failed.push of the items the action ran for
FoundEntries(results) ==
  [i \in 1..Len(results) |->
     [itemId |-> results[i].call.item.itemId, error |-> results[i].call.err]]

\* the report of a batch: attempted lists the calls the action was run for
BatchReport(itemIds, selection, ran) ==
  [requested |-> Len(itemIds),
   succeeded |-> SelectSeq(FoundEntries(ran.results), LAMBDA e : e.error = ""),
   failed |-> MissingEntries(selection.missing)
                \o SelectSeq(FoundEntries(ran.results), LAMBDA e : e.error # ""),
   succeededCount |-> Len(SelectSeq(FoundEntries(ran.results), LAMBDA e : e.error = "")),
   failedCount |-> Len(selection.missing)
                     + Len(SelectSeq(FoundEntries(ran.results), LAMBDA e : e.error # "")),
   attempted |-> ran.results,
   disk |-> ran.disk]

\* the batch once the ids are looked up; n trash ids have been handed out
BatchOfSelection(itemIds, selection, op, d, n) ==
  BatchReport(itemIds, selection, RunCalls(BatchCalls(op, selection.found, n), d))

\* runSessionBatch(itemIds, sessionStore, action); listed is what the store
\* lists on the disk d when the batch starts
runSessionBatch(itemIds, listed, op, d, n) ==
  BatchOfSelection(itemIds, findItemsByIds(itemIds, listed), op, d, n)

\* runMultiSourceBatch(itemIds, sessionStore, claudeStore, action)
runMultiSourceBatch(itemIds, codexItems, claudeItems, op, d, n) ==
  BatchOfSelection(itemIds, findItemAcrossStores(itemIds, codexItems, claudeItems), op, d, n)

\* the id of the path of SystemS: of a session the listing hides where that
\* file exists, of no file elsewhere
UnlistedId == encodeItemId(Rel(PathRelative(CodexHome, SystemS)))

\* the item ids a client can hold: of the sessions the three stores list, of a
\* Codex path that is never listed and of a Claude session that does not exist
RequestItemIds(d) ==
  {item.itemId : item \in CodexListSessions(d).items \cup ClaudeListSessions(d).items
                            \cup GeminiListSessions(d).items}
    \cup {UnlistedId, encodeClaudeItemId(<<"gone">>)}

\* parseStringArrayField(payload, "itemIds"): the lists of at most maxLen ids
IdLists(ids, maxLen) == UNION {[1..k -> ids] : k \in 1..maxLen}

\* what a batch reported, in the order it worked: "session not found" for each
\* missing id, then the error of each action, "" for a success
ReportErrs(report) ==
  [i \in 1..(report.failedCount + report.succeededCount - Len(report.attempted)) |->
     report.failed[i].error]
    \o Errs(report.attempted)

\* the archive and unarchive routes answer 400 when an id is a Claude id
Unsupported(itemIds) == \E i \in 1..Len(itemIds) : isClaudeItemId(itemIds[i])

\* POST /api/sessions/archive and /api/sessions/unarchive with a list of ids
MoveBatch(op, name) ==
  \E listed \in {CodexListSessions(disk).items} :
    \E itemIds \in IdLists(RequestItemIds(disk), MaxBatch) :
      IF Unsupported(itemIds)
      THEN /\ Did(name, <<"not supported for Claude sessions">>)
           /\ UNCHANGED <<Config, disk, now, nextId, lost, reqs, crashed, trashedFrom, tampers>>
      ELSE \E report \in {runSessionBatch(itemIds, listed, op, disk, nextId)} :
             /\ disk' = report.disk
             /\ Did(name, ReportErrs(report))
             /\ UNCHANGED <<Config, now, nextId, lost, reqs, crashed, trashedFrom, tampers>>

ArchiveBatch == MoveBatch("archive", "archiveBatch")

UnarchiveBatch == MoveBatch("unarchive", "unarchiveBatch")

\* the home roots handed to trashSessionItem, one for each call
HomesOfCalls(results) == [i \in 1..Len(results) |-> results[i].call.home]

\* POST /api/sessions/delete with a list of ids
DeleteBatch ==
  \E codexItems \in {CodexListSessions(disk).items} :
    \E claudeItems \in {ClaudeListSessions(disk).items} :
      \E itemIds \in IdLists(RequestItemIds(disk), MaxBatch) :
        \E report \in {runMultiSourceBatch(itemIds, codexItems, claudeItems,
                                            "trash", disk, nextId)} :
          /\ nextId + Len(report.attempted) <= MaxTrash
          /\ nextId' = nextId + Len(report.attempted)
          /\ trashedFrom' = trashedFrom \o HomesOfCalls(report.attempted)
          /\ disk' = report.disk
          /\ Did("deleteBatch", ReportErrs(report))
          /\ UNCHANGED <<Config, now, lost, reqs, crashed, tampers>>

NextBatch == ArchiveBatch \/ UnarchiveBatch \/ DeleteBatch

\* the batches run with the trash on the device of the homes: every move of a
\* batch is then one rename
InitBatch ==
  /\ Init
  /\ disk0 \in {PlainDisk, TwinDisk, DraftDisk, GeminiDisk}
  /\ retentionDays = MaxRetention
  /\ ~xdev

SpecBatch == InitBatch /\ [][NextBatch]_vars

---------------------------------------------------------------------------
(* The report of a batch (SpecBatch) *)

\* how often x occurs in the sequence
Count(x, seq) == Cardinality({i \in 1..Len(seq) : seq[i] = x})

EntryIds(entries) == [i \in 1..Len(entries) |-> entries[i].itemId]

ListedIds(items) == {item.itemId : item \in items}

\* the report of the batch over itemIds accounts for every id once for each
\* time it was requested, and what is not listed was not found and not tried
ReportAccounts(itemIds, listed, report) ==
  /\ report.requested = Len(itemIds)
  /\ report.succeededCount + report.failedCount = report.requested
  /\ report.succeededCount = Len(report.succeeded)
  /\ report.failedCount = Len(report.failed)
  /\ \A id \in Range(itemIds) :
       /\ Count(id, itemIds)
            = Count(id, EntryIds(report.succeeded)) + Count(id, EntryIds(report.failed))
       /\ id \notin listed =>
            /\ Count(id, EntryIds(report.succeeded)) = 0
            /\ \A i \in 1..Len(report.failed) :
                 report.failed[i].itemId = id => report.failed[i].error = "session not found"
            /\ \A i \in 1..Len(report.attempted) : report.attempted[i].call.item.itemId # id

\* what C12 says of the batches over itemIds, the stores having listed
\* codexItems and claudeItems for them
BatchesAccount(itemIds, codexItems, claudeItems) ==
  /\ \A op \in {"archive", "unarchive", "trash"} :
       ReportAccounts(itemIds, ListedIds(codexItems),
                      runSessionBatch(itemIds, codexItems, op, disk, nextId))
  /\ ReportAccounts(itemIds, ListedIds(codexItems \cup claudeItems),
                    runMultiSourceBatch(itemIds, codexItems, claudeItems, "trash", disk, nextId))

\* C12: the report of every batch (archive, unarchive, delete) over any list of
\* ids, with duplicates and ids of other providers, has succeededCount +
\* failedCount = requested, holds each requested occurrence of an id in exactly
\* one of succeeded and failed, and reports every id that is not in the fresh
\* listing as failed with "session not found" without running the action for it.
C12_BatchReportAccountsForEveryId ==
  \E codexItems \in {CodexListSessions(disk).items} :
    \E claudeItems \in {ClaudeListSessions(disk).items} :
      \A itemIds \in IdLists(RequestItemIds(disk), MaxBatch) :
        BatchesAccount(itemIds, codexItems, claudeItems)

\* a delete of two ids has just reported one of them not found and trashed
\* the other
C12_Witness ==
  /\ last = [op |-> "deleteBatch", errs |-> <<"session not found", "">>]
  /\ nextId = 1
  /\ SlotsWithMeta(disk) = {1}

---------------------------------------------------------------------------
(* One failure does not end the batch (SpecSiblings) *)

\* the batch routes over the homes that hold both an item the action refuses
\* and one it takes, the trash filled by the delete route
InitSiblings ==
  /\ InitBatch
  /\ disk0 \in {PlainDisk, DraftDisk}

SpecSiblings == InitSiblings /\ [][NextBatch]_vars

\* none of the first k - 1 results changed the disk
NoneChangedBefore(results, k) == \A j \in 1..(k - 1) : ~results[j].changed

\* the batch whose report is given ran the action once for each item found, in
\* turn and whatever the ones before reported, and entered each outcome in
\* succeeded or failed; an item worked after items that changed nothing fared
\* as it does alone
AttemptsAll(selection, calls, report) ==
  /\ Len(report.attempted) = Len(selection.found)
  /\ report.succeededCount + report.failedCount
       = Len(selection.missing) + Len(selection.found)
  /\ \A k \in 1..Len(selection.found) :
       /\ report.attempted[k].call.item = selection.found[k]
       /\ report.attempted[k].call.pc = "done"
       /\ NoneChangedBefore(report.attempted, k) =>
            report.attempted[k].call = Run(calls[k], disk).c
       /\ IF report.attempted[k].call.err = ""
          THEN \E i \in 1..Len(report.succeeded) :
                 report.succeeded[i].itemId = selection.found[k].itemId
          ELSE \E i \in 1..Len(report.failed) :
                 report.failed[i] = [itemId |-> selection.found[k].itemId,
                                     error |-> report.attempted[k].call.err]

\* the same of the batch of the action op that found selection
SelectionAttemptsAll(itemIds, selection, op) ==
  AttemptsAll(selection, BatchCalls(op, selection.found, nextId),
              BatchOfSelection(itemIds, selection, op, disk, nextId))

\* TrashStore.restore and TrashStore.purge ran #restoreOne / #purgeOne once for
\* each id, in turn and whatever the ones before reported
TrashAttemptsAll(op, trashIds, report) ==
  /\ Len(report.results) = Len(trashIds)
  /\ \A k \in 1..Len(trashIds) :
       /\ report.results[k].call.trashId = trashIds[k]
       /\ report.results[k].call.pc = "done"
       /\ NoneChangedBefore(report.results, k) =>
            report.results[k].call = Run(Call(op, NoItem, trashIds[k], <<>>), disk).c

\* C13: a batch runs its action exactly once for every item found, whether or
\* not the action threw for an earlier item; what an action throws is entered
\* as the failure of its item and the items after it are still worked.
C13_FailureDoesNotAbortBatch ==
  /\ \E codexItems \in {CodexListSessions(disk).items} :
       \E claudeItems \in {ClaudeListSessions(disk).items} :
         \A itemIds \in IdLists(RequestItemIds(disk), MaxBatch) :
           /\ \A op \in {"archive", "unarchive"} :
                SelectionAttemptsAll(itemIds, findItemsByIds(itemIds, codexItems), op)
           /\ SelectionAttemptsAll(itemIds,
                                   findItemAcrossStores(itemIds, codexItems, claudeItems),
                                   "trash")
  /\ \A trashIds \in IdLists(RequestIds, MaxBatch) :
       /\ TrashAttemptsAll("restore", trashIds, restore(trashIds, disk))
       /\ TrashAttemptsAll("purge", trashIds, purge(trashIds, disk))

\* an archive of two ids has just been refused for the first item and has gone
\* through for the second
C13_Witness ==
  /\ last = [op |-> "archiveBatch", errs |-> <<InvalidArchive, "">>]
  /\ CodexListSessions(disk).counts.active = 0


---------------------------------------------------------------------------
(* Expiry: the clock, the retention and the server process (SpecExpiry) *)

\* the days the clock may reach
MaxDays == 2

\* a process that is not running
Stopped == [listening |-> FALSE, expiredAtStart |-> {}, failed |-> {}]

\* a day passes, whether the server runs or not
Tick ==
  /\ now < MaxDays
  /\ now' = now + 1
  /\ UNCHANGED <<Config, disk, nextId, lost, last, reqs, crashed, trashedFrom, tampers>>

\* SIGINT / SIGTERM: the server closes and the process exits
StopServer ==
  /\ server.listening
  /\ server' = Stopped
  /\ UNCHANGED <<disk, disk0, denied, xdev, retentionDays, now, nextId, lost, last, reqs, crashed,
                 trashedFrom, tampers, store>>

\* the slots a listing reports expired
ExpiredSlots(listing) == {item.slot : item \in {i \in listing.items : i.expired}}

\* the ids a report lists as failed
FailedIds(results) ==
  {results[i].call.trashId : i \in {j \in DOMAIN results : results[j].call.err # ""}}

\* startServer: the sweep awaited before http.createServer and server.listen
StartupSweep_None(d) == [err |-> "", expiredCandidates |-> 0, results |-> <<>>, disk |-> d]
StartupSweep(d) == cleanupExpired(d)

\* startServer: what the process is once the sweep has returned or thrown
Started(listing, report) ==
  IF report.err # "" THEN Stopped
  ELSE [listening |-> TRUE, expiredAtStart |-> ExpiredSlots(listing),
        failed |-> FailedIds(report.results)]

\* codex-history start --retention-days N: new TrashStore, cleanupExpired, listen
StartServer ==
  /\ ~server.listening
  /\ \E days \in 0..MaxRetention :
       \E report \in {StartupSweep(disk)} :
         /\ retentionDays' = days
         /\ disk' = report.disk
         /\ lost' = lost \cup (Bodies(disk) \ Bodies(report.disk))
         /\ server' = Started(listTrashItems(disk), report)
         /\ Did("start", <<report.err>> \o Errs(report.results))
  /\ UNCHANGED <<disk0, denied, xdev, now, nextId, reqs, crashed, trashedFrom, tampers, store>>

\* POST /api/sessions/delete, handled by a listening server
ServeDelete == server.listening /\ DeleteItem

\* POST /api/trash/restore, handled by a listening server
ServeRestore == server.listening /\ RestoreOne

\* POST /api/trash/purge with one id, handled by a listening server
ServePurge ==
  /\ server.listening
  /\ \E trashId \in RequestIds :
       \E report \in {purge(<<trashId>>, disk)} :
         /\ disk' = report.disk
         /\ lost' = lost \cup (Bodies(disk) \ Bodies(report.disk))
         /\ Did("purge", Errs(report.results))
         /\ UNCHANGED <<Config, now, nextId, reqs, crashed, trashedFrom, tampers>>

\* GET /api/trash, handled by a listening server
ServeTrashList ==
  /\ server.listening
  /\ \E listing \in {listTrashItems(disk)} :
       /\ disk' = listing.disk
       /\ Did("list", <<listing.err>>)
  /\ UNCHANGED <<Config, now, nextId, lost, reqs, crashed, trashedFrom, tampers>>

NextExpiry ==
  \/ Tick
  \/ StopServer
  \/ StartServer
  \/ ServeDelete
  \/ ServeRestore
  \/ ServePurge
  \/ ServeTrashList
  \/ CleanupExpired

\* the trash expires the same way whatever the homes hold and whichever
\* device it is on
InitExpiry ==
  /\ Init
  /\ disk0 = PlainDisk
  /\ ~xdev

SpecExpiry == InitExpiry /\ [][NextExpiry]_vars


---------------------------------------------------------------------------
(* An item trashed with no retention (SpecExpiry) *)

\* trashSessionItem with retentionDays = 0 writes expiresAt = deletedAt
ZeroRetention(item) == item.metadata.expiresAt = item.metadata.deletedAt

\* the ids a report lists as succeeded
SucceededIds(results) ==
  {results[i].call.trashId : i \in {j \in DOMAIN results : results[j].call.err = ""}}

\* item is counted and purged by the sweep report, and gone from the listing after it
SweptAway(item, expired, report, after) ==
  /\ item \in expired
  /\ report.err = ""
  /\ report.expiredCandidates = Cardinality(expired)
  /\ item.metadata.trashId \in SucceededIds(report.results)
  /\ after.err = ""
  /\ item.slot \notin {i.slot : i \in after.items}

SweepTakes(listing, report) ==
  /\ listing.err = ""
  /\ \A item \in {i \in listing.items : ZeroRetention(i)} :
       /\ item.expired
       /\ SweptAway(item, {i \in listing.items : i.expired}, report,
                    listTrashItems(report.disk))

\* C14: an item trashed with retentionDays = 0 is reported expired by every
\* listing made after it was trashed, whatever the clock reads by then; a
\* cleanupExpired run at that point counts it among expiredCandidates, purges
\* it, and the listing made after the sweep no longer holds it
C14_ZeroRetentionExpiresAtOnce ==
  \E listing \in {listTrashItems(disk)} :
    \E report \in {cleanupExpired(disk)} : SweepTakes(listing, report)

\* a listing request has just shown an item trashed with no retention, expired
C14_Witness ==
  /\ last = [op |-> "list", errs |-> <<"">>]
  /\ \E item \in listTrashItems(disk).items : ZeroRetention(item) /\ item.expired


---------------------------------------------------------------------------
(* What the sweep removes (SpecSweepTamper) *)

\* the ids of the other slots handed out so far
OtherIds(n) == {createTrashId(k) : k \in (1..nextId) \ {n}}

\* what a hand edit of the slot n may leave in its record: the id of another
\* slot in trashId, or a meta.json that parses to null
SlotEdits(m, n) ==
  {[m EXCEPT !.trashId = t] : t \in OtherIds(n)} \cup {[m EXCEPT !.json = "null"]}

\* somebody rewrites the meta.json of one slot
EditSlot ==
  /\ tampers < MaxTampers
  /\ \E n \in SlotsWithMeta(disk) :
       \E edited \in SlotEdits(disk.files[MetadataPath(createTrashId(n))], n) :
         /\ edited # disk.files[MetadataPath(createTrashId(n))]
         /\ disk' = [disk EXCEPT !.files[MetadataPath(createTrashId(n))] = edited]
  /\ tampers' = tampers + 1
  /\ UNCHANGED <<Config, now, nextId, lost, last, reqs, crashed, trashedFrom>>

NextSweepTamper == Tick \/ ServeDelete \/ CleanupExpired \/ EditSlot

SpecSweepTamper == InitExpiry /\ [][NextSweepTamper]_vars

\* the slots whose record is as trashSessionItem wrote it
AsWritten(d) ==
  {n \in SlotsWithMeta(d) :
     /\ d.files[MetadataPath(createTrashId(n))].json = "object"
     /\ d.files[MetadataPath(createTrashId(n))].trashId = createTrashId(n)}

\* the files and directories of the slot n
SlotContent(d, n) ==
  [files |-> [p \in {q \in DOMAIN d.files : IsPrefix(ItemRoot(createTrashId(n)), q)} |-> d.files[p]],
   dirs |-> {q \in d.dirs : IsPrefix(ItemRoot(createTrashId(n)), q)}]

SlotGone(d, n) == SlotContent(d, n) = [files |-> <<>>, dirs |-> {}]

\* the sweep report removes the slot n exactly when its expiry is reached
RemovedIfExpired(d, n, report) ==
  IF d.files[MetadataPath(createTrashId(n))].expiresAt <= now
  THEN SlotGone(report.disk, n)
  ELSE SlotContent(report.disk, n) = SlotContent(d, n)

\* the counts of a sweep report agree
CountsAgree(report) ==
  /\ report.expiredCandidates = Len(report.results)
  /\ Len(report.results) = Len(Succeeded(report.results)) + Len(Failed(report.results))

\* C15: run in any state, cleanupExpired removes every slot whose record is as
\* trashSessionItem wrote it and whose expiresAt is reached, leaves every such
\* slot whose expiresAt is still ahead as it is, and reports as many
\* expiredCandidates as ids it tried to purge, succeeded and failed together
C15_SweepRemovesExactlyTheExpired ==
  \E report \in {cleanupExpired(disk)} :
    /\ CountsAgree(report)
    /\ \A n \in AsWritten(disk) : RemovedIfExpired(disk, n, report)


---------------------------------------------------------------------------
(* The sweep at startup (SpecExpiry) *)

\* the slots a request to the server can see
VisibleSlots(listing) == {item.slot : item \in listing.items}

\* C16: requests are handled only by a listening server, and startServer
\* listens only after cleanupExpired has returned: while the server listens,
\* no slot that was expired when the process started is in the trash listing,
\* except those the startup report lists as failed
C16_NothingExpiredAtStartIsServed ==
  server.listening =>
    (VisibleSlots(listTrashItems(disk)) \cap server.expiredAtStart) \subseteq server.failed

\* the server lists the trash after a startup sweep that found expired items
C16_Witness ==
  /\ server.listening
  /\ server.expiredAtStart # {}
  /\ last = [op |-> "list", errs |-> <<"">>]


---------------------------------------------------------------------------
(* The life of a trash id (SpecLifecycle) *)

\* deletes, restores, purges and sweeps while the days pass
NextLifecycle == Tick \/ ServeDelete \/ ServeRestore \/ ServePurge \/ CleanupExpired

SpecLifecycle == InitExpiry /\ [][NextLifecycle]_vars

\* the metadata record of the slot n, NoMeta when it has none
RecordOf(d, n) ==
  IF IsFile(d, MetadataPath(createTrashId(n))) THEN d.files[MetadataPath(createTrashId(n))]
  ELSE NoMeta

\* the ids createTrashId has handed out that the listing holds
ListedNumbers(listing) == {n \in 1..nextId : createTrashId(n) \in VisibleSlots(listing)}

\* a restore or a purge of the id n that succeeds takes it out of the listing
EndsWhenDone(d, n) ==
  \A op \in {"restore", "purge"} :
    \E o \in {Run(Call(op, NoItem, createTrashId(n), <<>>), d)} :
      o.c.err = "" => createTrashId(n) \notin VisibleSlots(listTrashItems(o.disk))

\* a sweep takes out of the listing every id it reports as succeeded
SweepEnds(d) ==
  \E report \in {cleanupExpired(d)} :
    SucceededIds(report.results) \cap VisibleSlots(listTrashItems(report.disk)) = {}

\* from before to after one step: an id out of the listing stays out and
\* cannot be restored, and a record that is still there is the same record
StaysEnded(before, after, d, e) ==
  \A n \in 1..nextId :
    /\ n \notin before => n \notin after
    /\ n \notin after => Run(Call("restore", NoItem, createTrashId(n), <<>>), e).c.err # ""
    /\ (n \in before /\ n \in after) => RecordOf(e, n) = RecordOf(d, n)

LifecycleStep ==
  /\ \A n \in 1..nextId : EndsWhenDone(disk, n)
  /\ SweepEnds(disk)
  /\ \E before \in {ListedNumbers(listTrashItems(disk))} :
       \E after \in {ListedNumbers(listTrashItems(disk'))} :
         StaysEnded(before, after, disk, disk')

\* C17: a trash id is created once and ends once: a restore, a purge or a
\* sweep that succeeds for an id takes it out of the trash listing; an id that
\* is out of the listing is never listed again and every later restore of it
\* fails; and while a slot is listed no operation changes its metadata record
C17_TrashIdsEndOnce == [][LifecycleStep]_vars

\* a restore has just succeeded, and an id handed out is out of the listing
C17_Witness ==
  /\ last = [op |-> "restore", errs |-> <<"">>]
  /\ nextId >= 1
  /\ ListedNumbers(listTrashItems(disk)) # 1..nextId


---------------------------------------------------------------------------
(* Which ids purge fails, and what it removes (SpecLifecycle) *)

\* the ids a purge request may name: those handed out, the next one (its slot
\* does not exist yet), and ids that are empty or hold ".", "/" or "_"
PurgeIds ==
  RequestIds \cup {createTrashId(nextId + 1), <<>>, <<"t", "/", "1">>, <<"t", "_", "1">>}

\* the id is empty or holds a character outside A-Z, a-z, 0-9 and "-"
IllFormed(id) == id = <<>> \/ \E i \in 1..Len(id) : id[i] \notin SafeChars

\* e is d without the slot id, and differs from d in nothing else
OnlySlotRemoved(d, e, id) ==
  /\ DOMAIN e.files = {p \in DOMAIN d.files : ~IsPrefix(ItemRoot(id), p)}
  /\ \A p \in DOMAIN e.files : e.files[p] = d.files[p]
  /\ e.dirs = {q \in d.dirs : ~IsPrefix(ItemRoot(id), q)}

\* the report of purge([id]) run on d, and of the same purge run once more
PurgedAsAsked(d, id, once, twice) ==
  IF IllFormed(id)
  THEN Errs(once.results) = <<"invalid trash id">> /\ once.disk = d
  ELSE /\ Errs(once.results) = <<"">>
       /\ OnlySlotRemoved(d, once.disk, id)
       /\ Errs(twice.results) = <<"">>
       /\ twice.disk = once.disk

\* C18: purge fails an id exactly when the id is empty or holds a character
\* outside A-Z, a-z, 0-9 and "-", and then touches nothing; for any other id
\* it succeeds, whether the slot exists or not, removes what is under
\* items/<id> and nothing else, and succeeds again when repeated
C18_PurgeFailsOnlyIllFormedIds ==
  \A id \in PurgeIds :
    \E once \in {purge(<<id>>, disk)} :
      \E twice \in {purge(<<id>>, once.disk)} : PurgedAsAsked(disk, id, once, twice)

\* a purge has just succeeded, and a trashed session is gone for good
C18_Witness ==
  /\ last = [op |-> "purge", errs |-> <<"">>]
  /\ lost # {}


---------------------------------------------------------------------------
(* Rollout contents: strings, titles and the signals of a session *)

MAX_TITLE_SCAN_LINES == 700
\* normalizeTitle: maxLength
TitleMaxLength == 56

USER_MESSAGE_BEGIN == "## My request for Codex:"

\* the characters \s matches, among those the model uses
Whitespace == {" ", "\n", "\t"}

CharAt(text, i) == SubSeq(text, i, i)

\* String.prototype.startsWith
StartsWith(text, prefix) ==
  Len(text) >= Len(prefix) /\ SubSeq(text, 1, Len(prefix)) = prefix

\* String.prototype.indexOf, counted from 1; 0 when the text does not hold it
IndexOf(text, needle) ==
  LET at == {i \in 1..(Len(text) - Len(needle) + 1) :
               SubSeq(text, i, i + Len(needle) - 1) = needle}
  IN IF at = {} THEN 0 ELSE CHOOSE i \in at : \A j \in at : i <= j

\* String.prototype.trim
RECURSIVE TrimStart(_)
TrimStart(text) ==
  IF Len(text) >= 1 /\ CharAt(text, 1) \in Whitespace
  THEN TrimStart(SubSeq(text, 2, Len(text))) ELSE text
RECURSIVE TrimEnd(_)
TrimEnd(text) ==
  IF Len(text) >= 1 /\ CharAt(text, Len(text)) \in Whitespace
  THEN TrimEnd(SubSeq(text, 1, Len(text) - 1)) ELSE text
Trim(text) == TrimEnd(TrimStart(text))

\* text.replace(/\s+/g, " ")
RECURSIVE OneLine(_)
OneLine(text) ==
  IF Len(text) = 0 THEN ""
  ELSE IF CharAt(text, 1) \notin Whitespace
  THEN CharAt(text, 1) \o OneLine(SubSeq(text, 2, Len(text)))
  ELSE " " \o OneLine(TrimStart(text))

LowerOf ==
  [c \in {"A","B","C","D","E","F","G","H","I","J","K","L","M","N","O","P","Q","R","S","T",
          "U","V","W","X","Y","Z"} |->
     CASE c = "A" -> "a" [] c = "B" -> "b" [] c = "C" -> "c" [] c = "D" -> "d"
       [] c = "E" -> "e" [] c = "F" -> "f" [] c = "G" -> "g" [] c = "H" -> "h"
       [] c = "I" -> "i" [] c = "J" -> "j" [] c = "K" -> "k" [] c = "L" -> "l"
       [] c = "M" -> "m" [] c = "N" -> "n" [] c = "O" -> "o" [] c = "P" -> "p"
       [] c = "Q" -> "q" [] c = "R" -> "r" [] c = "S" -> "s" [] c = "T" -> "t"
       [] c = "U" -> "u" [] c = "V" -> "v" [] c = "W" -> "w" [] c = "X" -> "x"
       [] c = "Y" -> "y" [] c = "Z" -> "z"]

LowerChar(c) == IF c \in DOMAIN LowerOf THEN LowerOf[c] ELSE c

\* String.prototype.toLowerCase
RECURSIVE ToLowerCase(_)
ToLowerCase(text) ==
  IF Len(text) = 0 THEN ""
  ELSE LowerChar(CharAt(text, 1)) \o ToLowerCase(SubSeq(text, 2, Len(text)))

\* session-store.js normalizeTitle of a string: "" stands for null.  The
\* template literal of line 59 ends in the three characters U+00E2 U+20AC
\* U+00A6 (the bytes c3 a2 e2 82 ac c2 a6 of the file); "..." stands for
\* them, one "." for each
Shortened(oneLine) ==
  IF Len(oneLine) <= TitleMaxLength THEN oneLine
  ELSE SubSeq(oneLine, 1, TitleMaxLength - 1) \o "..."
normalizeTitle(rawTitle) == CHOOSE title \in {Shortened(oneLine) : oneLine \in {Trim(OneLine(rawTitle))}} : TRUE

\* stripUserMessagePrefix
StrippedFrom(text, prefixIndex) ==
  IF prefixIndex >= 1
  THEN Trim(SubSeq(text, prefixIndex + Len(USER_MESSAGE_BEGIN), Len(text)))
  ELSE Trim(text)
stripUserMessagePrefix(text) ==
  CHOOSE stripped \in {StrippedFrom(text, i) : i \in {IndexOf(text, USER_MESSAGE_BEGIN)}} : TRUE

SystemPrefixes ==
  {"$skill-", "# agents.md instructions", "<environment_context>",
   "<permissions instructions>", "<app-context>", "<collaboration_mode>",
   "<instructions>", "<user_instructions>", "<skill>"}

\* isSystemGeneratedMessage
isSystemGeneratedMessage(title) ==
  \E lowered \in {ToLowerCase(title)} :
    \E prefix \in SystemPrefixes : StartsWith(lowered, prefix)

\* one line of a rollout file, as JSON.parse reads it; json is FALSE for a line
\* that does not parse, and a field that is not a string has isString FALSE
RolloutLine(json, type, payloadType, message, source) ==
  [json |-> json, type |-> type, payloadType |-> payloadType, message |-> message,
   source |-> source]
NotAString == [isString |-> FALSE, text |-> ""]
AString(text) == [isString |-> TRUE, text |-> text]

\* extractTitleFromRecord: "" stands for null
extractTitleFromRecord(record) ==
  IF /\ record.json
     /\ record.type = "event_msg"
     /\ record.payloadType = "user_message"
     /\ record.message.isString
  THEN normalizeTitle(stripUserMessagePrefix(record.message.text))
  ELSE ""

NoSignals ==
  [source |-> "unknown", hasUserMessage |-> FALSE, firstUserTitle |-> "",
   firstUserIsSystem |-> FALSE]

\* readSessionSignalsFromRollout: what one parsed line adds to the signals
WithSource(signals, record) ==
  IF /\ signals.source = "unknown"
     /\ record.json
     /\ record.type = "session_meta"
     /\ record.source.isString
     /\ Trim(record.source.text) # ""
  THEN [signals EXCEPT !.source = Trim(record.source.text)]
  ELSE signals

WithTitle(signals, extracted) ==
  IF extracted = "" THEN signals
  ELSE IF signals.firstUserTitle # "" THEN [signals EXCEPT !.hasUserMessage = TRUE]
  ELSE [signals EXCEPT !.hasUserMessage = TRUE, !.firstUserTitle = extracted,
                       !.firstUserIsSystem = isSystemGeneratedMessage(extracted)]

AfterLine(signals, record) ==
  CHOOSE next \in {WithTitle(WithSource(signals, record), extracted) :
                     extracted \in {extractTitleFromRecord(record)}} : TRUE

\* a mutant of Settled: the loop stops once the title is known
Settled_TitleOnly(signals) == signals.firstUserTitle # ""

\* readSessionSignalsFromRollout: the loop stops once both are known
Settled(signals) == signals.source # "unknown" /\ signals.firstUserTitle # ""

\* a rollout file is a sequence of blocks [line, n]: the same line n times
\* over. The second and later lines of a block add nothing the first has not
\* added, so the loop reads the first and counts the rest.
RECURSIVE ScanBlocks(_, _, _)
\* the loop after a line: it ends when the signals are settled
ScanOn(blocks, scannedLines, next) ==
  IF Settled(next) THEN next ELSE ScanBlocks(Tail(blocks), scannedLines, next)
\* the loop reading one line more than MAX_TITLE_SCAN_LINES
ScanBlocks_OneMore(blocks, scannedLines, signals) ==
  IF blocks = <<>> \/ scannedLines + 1 > MAX_TITLE_SCAN_LINES + 1 THEN signals
  ELSE CHOOSE after \in {ScanOn(blocks, scannedLines + Head(blocks).n, next) :
                           next \in {AfterLine(signals, Head(blocks).line)}} : TRUE
ScanBlocks(blocks, scannedLines, signals) ==
  IF blocks = <<>> \/ scannedLines + 1 > MAX_TITLE_SCAN_LINES THEN signals
  ELSE CHOOSE after \in {ScanOn(blocks, scannedLines + Head(blocks).n, next) :
                           next \in {AfterLine(signals, Head(blocks).line)}} : TRUE

\* readSessionSignalsFromRollout
readSessionSignalsFromRollout(blocks) == ScanBlocks(blocks, 0, NoSignals)

\* isSystemSession, on the signals read
SignalsAreSystem(signals) ==
  \/ ~signals.hasUserMessage
  \/ (signals.firstUserTitle # "" /\ signals.firstUserIsSystem)
  \/ signals.source \in {"exec", "mcp"}
  \/ StartsWith(signals.source, "sub_agent")

\* fallbackTitleForThread
fallbackTitleForThread(threadId) ==
  IF threadId = <<"unknown">> THEN "Untitled session"
  ELSE "Untitled " \o SubSeq(threadId[1], 1, IF Len(threadId[1]) < 8 THEN Len(threadId[1]) ELSE 8)


---------------------------------------------------------------------------
(* SessionStore.listSessions with its caches *)

\* a rollout file: its lines, and the token of fs.stat (mtimeMs and size)
Rollout(blocks, stamp) ==
  [kind |-> "session", body |-> "rollout",
   system |-> SignalsAreSystem(readSessionSignalsFromRollout(blocks)),
   sessionId |-> <<>>, blocks |-> blocks, stamp |-> stamp]

\* .codex-global-state.json: json is "object" or "garbage"; titles is what
\* parsed["thread-titles"].titles holds, by thread id
GlobalState(json, titles, stamp) ==
  [kind |-> "state", json |-> json, titles |-> titles, stamp |-> stamp]

globalStatePath == Append(CodexHome, Seg(".codex-global-state.json"))

\* #loadDesktopThreadTitles: the titles that normalizeTitle keeps
KeptTitles(titlesRaw) ==
  [t \in {u \in DOMAIN titlesRaw : normalizeTitle(titlesRaw[u]) # ""} |->
     normalizeTitle(titlesRaw[t])]

\* #loadDesktopThreadTitles that never reads the file again once it has
loadDesktopThreadTitles_ReadOnce(d, cache) ==
  IF ~IsFile(d, globalStatePath) THEN [version |-> 0, titles |-> EmptyMap]
  ELSE IF cache.version # 0 THEN cache
  ELSE IF d.files[globalStatePath].json # "object"
  THEN [version |-> d.files[globalStatePath].stamp, titles |-> EmptyMap]
  ELSE [version |-> d.files[globalStatePath].stamp,
        titles |-> KeptTitles(d.files[globalStatePath].titles)]

\* #loadDesktopThreadTitles: the desktopTitleCache it leaves
loadDesktopThreadTitles(d, cache) ==
  IF ~IsFile(d, globalStatePath) THEN [version |-> 0, titles |-> EmptyMap]
  ELSE IF cache.version = d.files[globalStatePath].stamp THEN cache
  ELSE IF d.files[globalStatePath].json # "object"
  THEN [version |-> d.files[globalStatePath].stamp, titles |-> EmptyMap]
  ELSE [version |-> d.files[globalStatePath].stamp,
        titles |-> KeptTitles(d.files[globalStatePath].titles)]

\* #resolveItemMeta: desktopTitle || signals.firstUserTitle || fallback
TitleOf(desktopTitles, threadId, signals) ==
  IF threadId \in DOMAIN desktopTitles THEN desktopTitles[threadId]
  ELSE IF signals.firstUserTitle # "" THEN signals.firstUserTitle
  ELSE fallbackTitleForThread(threadId)

\* #resolveItemMeta: the entry computed from the file
ResolvedEntry(content, version, threadId, desktopTitles, signals) ==
  [stamp |-> content.stamp, desktopTitleVersion |-> version,
   title |-> TitleOf(desktopTitles, threadId, signals), source |-> signals.source,
   hasUserMessage |-> signals.hasUserMessage,
   isSystemMessage |-> SignalsAreSystem(signals)]

\* #resolveItemMeta: the cached entry when it is current, else a new one
resolveItemMeta(st, p, content, threadId, desktopTitles) ==
  IF /\ p \in DOMAIN st.titleCache
     /\ st.titleCache[p].stamp = content.stamp
     /\ st.titleCache[p].desktopTitleVersion = st.desktopTitleCache.version
  THEN st.titleCache[p]
  ELSE ResolvedEntry(content, st.desktopTitleCache.version, threadId, desktopTitles,
                     readSessionSignalsFromRollout(content.blocks))

\* #scanRoot: the files whose name starts with rollout- and ends with .jsonl
RolloutFiles(d, rootPath) ==
  {p \in FilesUnder(d, rootPath) :
     /\ Len(Basename(p)) >= 2
     /\ Basename(p)[1] = "rollout"
     /\ Basename(p)[Len(Basename(p))] = "jsonl"
     /\ d.files[p].kind = "session"}

ThreadIdOf(p) ==
  IF parseRolloutFilename(Basename(p)).ok THEN parseRolloutFilename(Basename(p)).threadId
  ELSE <<"unknown">>

\* #scanRoot: the item pushed for the file p
TitledItem(p, state, entry) ==
  [itemId |-> encodeItemId(normalizeRelativePath(PathRelative(CodexHome, p))),
   threadId |-> ThreadIdOf(p), title |-> entry.title,
   hasUserMessage |-> entry.hasUserMessage, isSystemMessage |-> entry.isSystemMessage,
   source |-> entry.source, fileName |-> Basename(p), state |-> state,
   absolutePath |-> p,
   relativePath |-> normalizeRelativePath(PathRelative(CodexHome, p)), provider |-> ""]

\* #scanRoot: the entry of every rollout file under the root
ScannedEntries(d, st, rootPath, desktopTitles) ==
  [p \in RolloutFiles(d, rootPath) |->
     resolveItemMeta(st, p, d.files[p], ThreadIdOf(p), desktopTitles)]

\* #scanRoot: the items of the files that are not system sessions
ScannedItems(entries, state) ==
  {TitledItem(p, state, entries[p]) : p \in {q \in DOMAIN entries : ~entries[q].isSystemMessage}}

\* listSessions once both roots are scanned: the items, the counts, and the
\* titleCache without the paths that are not listed
Listed(st, active, archived) ==
  [items |-> ScannedItems(active, "active") \cup ScannedItems(archived, "archived"),
   counts |-> [total |-> Cardinality(ScannedItems(active, "active"))
                           + Cardinality(ScannedItems(archived, "archived")),
               active |-> Cardinality(ScannedItems(active, "active")),
               archived |-> Cardinality(ScannedItems(archived, "archived"))],
   store |-> [st EXCEPT !.titleCache =
                [p \in {q \in DOMAIN (active @@ archived) :
                          ~(active @@ archived)[q].isSystemMessage} |->
                   (active @@ archived)[p]]]]

\* listSessions from the scans on: st is the store as it is by then,
\* desktopTitles the map the call loaded when it began
ScanBoth(d, st, desktopTitles) ==
  Listed(st, ScannedEntries(d, st, sessionsRoot, desktopTitles),
         ScannedEntries(d, st, archivedRoot, desktopTitles))

\* listSessions: the store once #loadDesktopThreadTitles has returned
Loaded(d, st) ==
  [st EXCEPT !.desktopTitleCache = loadDesktopThreadTitles(d, st.desktopTitleCache)]

\* SessionStore.listSessions, run without another call in between
listSessions(d, st) == ScanBoth(d, Loaded(d, st), Loaded(d, st).desktopTitleCache.titles)


---------------------------------------------------------------------------
(* Which rollout files are listed (SpecSignals) *)

MetaLine(source) == RolloutLine(TRUE, "session_meta", "", NotAString, source)
UserLine(message) == RolloutLine(TRUE, "event_msg", "user_message", AString(message), NotAString)
\* a prompt carried by a response_item record, not by a user_message event
ResponseLine(text) == RolloutLine(TRUE, "response_item", "message", AString(text), NotAString)
GarbageLine == RolloutLine(FALSE, "", "", NotAString, NotAString)

Block(line, n) == [line |-> line, n |-> n]

\* what payload.source may hold
Sources ==
  {AString("cli"), AString("exec"), AString(" mcp "), AString("sub_agent_review"),
   AString("  "), NotAString}

\* what payload.message may hold
Messages ==
  {"Fix the bug",
   "<INSTRUCTIONS>be brief",
   "#  AGENTS.md\ninstructions for /tmp/project",
   "## My request for Codex:\nFix  it",
   "<environment_context> ## My request for Codex: fix it",
   "## My request for Codex: $Skill-installer",
   " \n ",
   "## My request for Codex:  ",
   "Rename every rollout file of the last month and list what changed"}

\* lines that say nothing, up to the limit of the scan and past it
Fillers == {1, MAX_TITLE_SCAN_LINES - 2, MAX_TITLE_SCAN_LINES - 1, MAX_TITLE_SCAN_LINES}

Blocks ==
  {Block(MetaLine(source), 1) : source \in Sources}
    \cup {Block(UserLine(message), 1) : message \in Messages}
    \cup {Block(ResponseLine("# AGENTS.md instructions for /tmp/project"), 1)}
    \cup {Block(GarbageLine, n) : n \in Fillers}

\* the rollout files of the model: up to two blocks, and a plain message
\* followed by fillers and an exec source on the last line read or past it
RolloutContents ==
  {<<>>} \cup {<<b>> : b \in Blocks} \cup {<<b, c>> : b \in Blocks, c \in Blocks}
    \cup {<<Block(UserLine("Fix the bug"), 1), Block(GarbageLine, n),
            Block(MetaLine(AString("exec")), 1)>> :
            n \in {MAX_TITLE_SCAN_LINES - 2, MAX_TITLE_SCAN_LINES - 1}}

PlainRollout == <<Block(MetaLine(AString("cli")), 1), Block(UserLine("Fix the bug"), 1)>>

\* GET /api/sessions -> SessionStore.listSessions, with no other call in between
ListSessions ==
  /\ store' = listSessions(disk, store).store
  /\ Did("list", <<"">>)
  /\ UNCHANGED <<disk, disk0, denied, xdev, retentionDays, server, now, nextId, lost, reqs, crashed,
                 trashedFrom, tampers>>

\* Codex appends a line to a rollout file
AppendLine ==
  /\ now < MaxDays
  /\ now' = now + 1
  /\ \E p \in RolloutFiles(disk, sessionsRoot) :
       \E line \in {UserLine("Fix the bug"), MetaLine(AString("exec"))} :
         disk' = [disk EXCEPT !.files[p] =
                    Rollout(Append(disk.files[p].blocks, Block(line, 1)), now + 1)]
  /\ UNCHANGED <<Config, nextId, lost, last, reqs, crashed, trashedFrom, tampers>>

NextSignals == ListSessions \/ AppendLine

InitSignals ==
  /\ \E blocks \in RolloutContents :
       disk0 = DiskOf((ActiveA :> Rollout(blocks, 0)) @@ (ArchivedB :> Rollout(PlainRollout, 0)))
  /\ disk = disk0
  /\ xdev = FALSE
  /\ retentionDays = MaxRetention
  /\ now = 0
  /\ nextId = 0
  /\ lost = {}
  /\ last = NoLast
  /\ reqs = <<>>
  /\ crashed = FALSE
  /\ trashedFrom = <<>>
  /\ tampers = 0
  /\ server = Listening
  /\ store = NewStore
  /\ denied = {}

SpecSignals == InitSignals /\ [][NextSignals]_vars

\* the line number of the first line of the block k
RECURSIVE FirstLineOf(_, _)
FirstLineOf(blocks, k) == IF k = 1 THEN 1 ELSE FirstLineOf(blocks, k - 1) + blocks[k - 1].n

\* the blocks that begin within the first 700 lines
Within(blocks) == {k \in 1..Len(blocks) : FirstLineOf(blocks, k) <= MAX_TITLE_SCAN_LINES}

\* the blocks within the first 700 lines that are a user message with text
UserMessages(blocks) ==
  {k \in Within(blocks) : extractTitleFromRecord(blocks[k].line) # ""}

\* the blocks within the first 700 lines that are a session_meta with a source
SourceLines(blocks) ==
  {k \in Within(blocks) : WithSource(NoSignals, blocks[k].line).source # "unknown"}

Least(S) == CHOOSE k \in S : \A j \in S : k <= j

FirstUserMessage(blocks) == extractTitleFromRecord(blocks[Least(UserMessages(blocks))].line)

SourceOf(blocks) ==
  IF SourceLines(blocks) = {} THEN "unknown"
  ELSE Trim(blocks[Least(SourceLines(blocks))].line.source.text)

\* the four reasons to leave a rollout file out of the listing
Omitted(blocks) ==
  \/ UserMessages(blocks) = {}
  \/ isSystemGeneratedMessage(FirstUserMessage(blocks))
  \/ SourceOf(blocks) \in {"exec", "mcp"}
  \/ StartsWith(SourceOf(blocks), "sub_agent")

\* the listing holds exactly the files that are not to be left out, each
\* with the title its own first user message gives, and counts them
ListsTheOthers(d, listing) ==
  /\ {item.absolutePath : item \in listing.items}
       = {p \in RolloutFiles(d, sessionsRoot) \cup RolloutFiles(d, archivedRoot) :
            ~Omitted(d.files[p].blocks)}
  /\ \A item \in listing.items :
       item.title = FirstUserMessage(d.files[item.absolutePath].blocks)
  /\ listing.counts.total = Cardinality(listing.items)
  /\ listing.counts.active = Cardinality({item \in listing.items : item.state = "active"})
  /\ listing.counts.archived = Cardinality({item \in listing.items : item.state = "archived"})

---------------------------------------------------------------------------
(* Titles and the desktop overrides, with listings in flight (SpecTitles) *)

\* the listSessions calls that may be in flight together
MaxListings == 2

\* what the desktop application may leave in the state file: a title for tA, a
\* blank title for tA and a title for tB, no titles, and text that is not JSON
StateContents ==
  {[json |-> "object", titles |-> (<<"tA">> :> "Renamed  A")],
   [json |-> "object", titles |-> (<<"tA">> :> " \n ") @@ (<<"tB">> :> "Kept B")],
   [json |-> "object", titles |-> EmptyMap],
   [json |-> "garbage", titles |-> EmptyMap]}

\* the desktop application rewrites .codex-global-state.json
WriteState ==
  /\ now < MaxDays
  /\ now' = now + 1
  /\ \E content \in StateContents :
       disk' = WriteFile(disk, globalStatePath,
                         GlobalState(content.json, content.titles, now + 1)).disk
  /\ UNCHANGED <<Config, nextId, lost, last, reqs, crashed, trashedFrom, tampers>>

\* the state file is removed
RemoveState ==
  /\ IsFile(disk, globalStatePath)
  /\ disk' = Unlink(disk, globalStatePath).disk
  /\ UNCHANGED <<Config, now, nextId, lost, last, reqs, crashed, trashedFrom, tampers>>

\* listSessions up to its first await: #loadDesktopThreadTitles has returned
\* the map the call will scan with
BeginList ==
  /\ Len(reqs) < MaxListings
  /\ store' = Loaded(disk, store)
  /\ reqs' = Append(reqs, [desktopTitles |-> Loaded(disk, store).desktopTitleCache.titles])
  /\ UNCHANGED <<disk, disk0, denied, xdev, retentionDays, server, now, nextId, lost, last, crashed,
                 trashedFrom, tampers>>

\* listSessions from the scans to its return, for one of the calls in flight
FinishList ==
  /\ \E i \in 1..Len(reqs) :
       /\ store' = ScanBoth(disk, store, reqs[i].desktopTitles).store
       /\ reqs' = SubSeq(reqs, 1, i - 1) \o SubSeq(reqs, i + 1, Len(reqs))
  /\ Did("list", <<"">>)
  /\ UNCHANGED <<disk, disk0, denied, xdev, retentionDays, server, now, nextId, lost, crashed,
                 trashedFrom, tampers>>

NextTitles == BeginList \/ FinishList \/ WriteState \/ RemoveState

InitTitles ==
  /\ disk0 = DiskOf((ActiveA :> Rollout(PlainRollout, 0)) @@ (ArchivedB :> Rollout(PlainRollout, 0)))
  /\ disk = disk0
  /\ xdev = FALSE
  /\ retentionDays = MaxRetention
  /\ now = 0
  /\ nextId = 0
  /\ lost = {}
  /\ last = NoLast
  /\ reqs = <<>>
  /\ crashed = FALSE
  /\ trashedFrom = <<>>
  /\ tampers = 0
  /\ server = Listening
  /\ store = NewStore
  /\ denied = {}

SpecTitles == InitTitles /\ [][NextTitles]_vars

\* the override the state file holds for the thread, "" when it holds none:
\* no file, a file that does not parse, no entry, or a blank entry
OverrideOf(d, threadId) ==
  IF /\ IsFile(d, globalStatePath)
     /\ d.files[globalStatePath].json = "object"
     /\ threadId \in DOMAIN d.files[globalStatePath].titles
  THEN normalizeTitle(d.files[globalStatePath].titles[threadId])
  ELSE ""

\* the override if there is one, else the first user message, else the placeholder
ExpectedTitle(override, firstUserTitle, threadId) ==
  IF override # "" THEN override
  ELSE IF firstUserTitle # "" THEN firstUserTitle
  ELSE fallbackTitleForThread(threadId)

TitledAsExpected(d, item) ==
  item.title =
    ExpectedTitle(OverrideOf(d, item.threadId),
                  readSessionSignalsFromRollout(d.files[item.absolutePath].blocks).firstUserTitle,
                  item.threadId)

\* C20: a listing made now gives every session the override the state file now
\* holds for its thread id, or its first user message when the file holds
\* none, or else the placeholder; a state file that is missing or does not
\* parse counts as holding none
C20_TitleFollowsDesktopOverride ==
  \A item \in listSessions(disk, store).items : TitledAsExpected(disk, item)

---------------------------------------------------------------------------
(* The length of a normalized title, in the three stores (SpecNormalize) *)

\* the longest raw title tried has TitleMaxLength + MaxOver characters that
\* are not whitespace
MaxOver == 1

\* claude-session-store.js normalizeTitle: the literal of line 40 holds the
\* same three characters as the one of session-store.js
claudeNormalizeTitle(rawTitle) ==
  CHOOSE title \in
    {IF Len(oneLine) <= TitleMaxLength THEN oneLine
     ELSE SubSeq(oneLine, 1, TitleMaxLength - 1) \o "..." :
       oneLine \in {Trim(OneLine(rawTitle))}} : TRUE

\* gemini-session-store.js normalizeTitle: the literal of line 37 holds the
\* one character U+2026; "~" stands for it
geminiNormalizeTitle(rawTitle) ==
  CHOOSE title \in
    {IF Len(oneLine) <= TitleMaxLength THEN oneLine
     ELSE SubSeq(oneLine, 1, TitleMaxLength - 1) \o "~" :
       oneLine \in {Trim(OneLine(rawTitle))}} : TRUE

\* normalizeTitle of the store named
NormalizedBy(storeName, rawTitle) ==
  CASE storeName = "codex" -> normalizeTitle(rawTitle)
    [] storeName = "claude" -> claudeNormalizeTitle(rawTitle)
    [] storeName = "gemini" -> geminiNormalizeTitle(rawTitle)

RECURSIVE Pad(_)
Pad(n) == IF n = 0 THEN "" ELSE "x" \o Pad(n - 1)

\* raw titles: n characters, whitespace in front, a run of whitespace and up
\* to two more characters behind them, whitespace at the end
RawTitles ==
  {lead \o Pad(n) \o mid \o trail :
     lead \in {"", " "},
     n \in {0, 1} \cup ((TitleMaxLength - 3)..(TitleMaxLength + MaxOver)),
     mid \in {"", " \n y", "\t\tyz"},
     trail \in {"", " \t"}}

\* a store normalizes a raw title: of a first user message, of a summary, of
\* a desktop override
NormalizeTitle ==
  /\ last = NoLast
  /\ \E storeName \in {"codex", "claude", "gemini"} :
       \E rawTitle \in RawTitles :
         last' = [op |-> "normalizeTitle", errs |-> <<>>, storeName |-> storeName,
                  rawTitle |-> rawTitle, title |-> NormalizedBy(storeName, rawTitle)]
  /\ UNCHANGED <<Config, disk, now, nextId, lost, reqs, crashed, trashedFrom, tampers>>

\* a run that applies one function to one input starts from the plain disk
InitPlain == Init /\ disk0 = PlainDisk /\ ~xdev

SpecNormalize == InitPlain /\ [][NormalizeTitle]_vars

\* no whitespace but single spaces between two other characters
SingleSpaced(text) ==
  /\ \A i \in 1..Len(text) : CharAt(text, i) \in Whitespace => CharAt(text, i) = " "
  /\ \A i \in 1..(Len(text) - 1) : ~(CharAt(text, i) = " " /\ CharAt(text, i + 1) = " ")
  /\ Len(text) >= 1 => (CharAt(text, 1) # " " /\ CharAt(text, Len(text)) # " ")

\* C24: in all three stores a normalized title has at most 56 characters: a
\* raw title that is longer once its whitespace is collapsed and trimmed
\* becomes its first 55 characters and one more character, a shorter one
\* becomes its collapsed and trimmed text, and no title holds a run of
\* whitespace or whitespace at either end
C24_TitleHasAtMost56Characters ==
  last.op = "normalizeTitle" =>
    /\ Len(last.title) <= TitleMaxLength
    /\ SingleSpaced(last.title)
    /\ IF Len(Trim(OneLine(last.rawTitle))) > TitleMaxLength
       THEN /\ Len(last.title) = TitleMaxLength
            /\ SubSeq(last.title, 1, TitleMaxLength - 1)
                 = SubSeq(Trim(OneLine(last.rawTitle)), 1, TitleMaxLength - 1)
       ELSE last.title = Trim(OneLine(last.rawTitle))

---------------------------------------------------------------------------
(* Item ids as text: UTF-8 and base64url (SpecIds)                         *)
(* A JavaScript string is the sequence of its UTF-16 code units, a Buffer  *)
(* the sequence of its bytes, and an id the sequence of the numbers 0..63  *)
(* its base64url characters stand for.  The ids of the sections above,     *)
(* [b64 |-> text], stand for the ids computed here.                        *)

\* the longest session id or file name tried, in code units
MaxIdLen == 2

IsHighSurrogate(u) == 55296 <= u /\ u <= 56319
IsLowSurrogate(u) == 56320 <= u /\ u <= 57343
IsContinuation(b) == 128 <= b /\ b <= 191

\* Buffer.from(text, "utf8") that never joins a surrogate pair
RECURSIVE Utf8Encode_NoPairs(_)
Utf8Encode_NoPairs(units) ==
  IF units = <<>> THEN <<>>
  ELSE IF units[1] < 128 THEN <<units[1]>> \o Utf8Encode_NoPairs(Tail(units))
  ELSE IF units[1] < 2048
  THEN <<192 + (units[1] \div 64), 128 + (units[1] % 64)>> \o Utf8Encode_NoPairs(Tail(units))
  ELSE IF IsHighSurrogate(units[1]) \/ IsLowSurrogate(units[1])
  THEN <<239, 191, 189>> \o Utf8Encode_NoPairs(Tail(units))
  ELSE <<224 + (units[1] \div 4096), 128 + ((units[1] \div 64) % 64), 128 + (units[1] % 64)>>
         \o Utf8Encode_NoPairs(Tail(units))

\* the code point of a surrogate pair
PairCodePoint(high, low) == 65536 + (high - 55296) * 1024 + (low - 56320)

\* Buffer.from(text, "utf8"): a surrogate pair gives four bytes, a surrogate
\* without its partner the three bytes of U+FFFD
RECURSIVE Utf8Encode(_)
Utf8Encode(units) ==
  IF units = <<>> THEN <<>>
  ELSE IF units[1] < 128 THEN <<units[1]>> \o Utf8Encode(Tail(units))
  ELSE IF units[1] < 2048
  THEN <<192 + (units[1] \div 64), 128 + (units[1] % 64)>> \o Utf8Encode(Tail(units))
  ELSE IF IsHighSurrogate(units[1]) /\ Len(units) >= 2 /\ IsLowSurrogate(units[2])
  THEN <<240 + (PairCodePoint(units[1], units[2]) \div 262144),
         128 + ((PairCodePoint(units[1], units[2]) \div 4096) % 64),
         128 + ((PairCodePoint(units[1], units[2]) \div 64) % 64),
         128 + (PairCodePoint(units[1], units[2]) % 64)>>
         \o Utf8Encode(SubSeq(units, 3, Len(units)))
  ELSE IF IsHighSurrogate(units[1]) \/ IsLowSurrogate(units[1])
  THEN <<239, 191, 189>> \o Utf8Encode(Tail(units))
  ELSE <<224 + (units[1] \div 4096), 128 + ((units[1] \div 64) % 64), 128 + (units[1] % 64)>>
         \o Utf8Encode(Tail(units))

\* the code units and the number of bytes of the first character of a
\* Buffer; bytes that begin no character give U+FFFD
FirstCharacter(bytes) ==
  LET b == bytes[1]
      two == (b - 192) * 64 + (bytes[2] - 128)
      three == (b - 224) * 4096 + (bytes[2] - 128) * 64 + (bytes[3] - 128)
      four == (b - 240) * 262144 + (bytes[2] - 128) * 4096 + (bytes[3] - 128) * 64
                + (bytes[4] - 128)
  IN IF b < 128 THEN [units |-> <<b>>, bytes |-> 1]
     ELSE IF 194 <= b /\ b <= 223 /\ Len(bytes) >= 2 /\ IsContinuation(bytes[2])
     THEN [units |-> <<two>>, bytes |-> 2]
     ELSE IF /\ 224 <= b /\ b <= 239 /\ Len(bytes) >= 3
             /\ IsContinuation(bytes[2]) /\ IsContinuation(bytes[3])
             /\ three >= 2048 /\ ~IsHighSurrogate(three) /\ ~IsLowSurrogate(three)
     THEN [units |-> <<three>>, bytes |-> 3]
     ELSE IF /\ 240 <= b /\ b <= 244 /\ Len(bytes) >= 4
             /\ IsContinuation(bytes[2]) /\ IsContinuation(bytes[3])
             /\ IsContinuation(bytes[4])
             /\ four >= 65536 /\ four <= 1114111
     THEN [units |-> <<55296 + ((four - 65536) \div 1024), 56320 + ((four - 65536) % 1024)>>,
           bytes |-> 4]
     ELSE [units |-> <<65533>>, bytes |-> 1]

\* buffer.toString("utf8")
RECURSIVE Utf8Decode(_)
Utf8Decode(bytes) ==
  IF bytes = <<>> THEN <<>>
  ELSE FirstCharacter(bytes).units
         \o Utf8Decode(SubSeq(bytes, FirstCharacter(bytes).bytes + 1, Len(bytes)))

\* buffer.toString("base64url"): three bytes give four characters, no padding
RECURSIVE ToBase64Url(_)
ToBase64Url(bytes) ==
  IF bytes = <<>> THEN <<>>
  ELSE IF Len(bytes) = 1 THEN <<bytes[1] \div 4, (bytes[1] % 4) * 16>>
  ELSE IF Len(bytes) = 2
  THEN <<bytes[1] \div 4, (bytes[1] % 4) * 16 + (bytes[2] \div 16), (bytes[2] % 16) * 4>>
  ELSE <<bytes[1] \div 4, (bytes[1] % 4) * 16 + (bytes[2] \div 16),
         (bytes[2] % 16) * 4 + (bytes[3] \div 64), bytes[3] % 64>>
         \o ToBase64Url(SubSeq(bytes, 4, Len(bytes)))

\* Buffer.from(id, "base64url"): four characters give three bytes, a last
\* character on its own gives none
RECURSIVE BufferFromBase64Url(_)
BufferFromBase64Url(id) ==
  IF Len(id) <= 1 THEN <<>>
  ELSE IF Len(id) = 2 THEN <<id[1] * 4 + (id[2] \div 16)>>
  ELSE IF Len(id) = 3
  THEN <<id[1] * 4 + (id[2] \div 16), (id[2] % 16) * 16 + (id[3] \div 4)>>
  ELSE <<id[1] * 4 + (id[2] \div 16), (id[2] % 16) * 16 + (id[3] \div 4),
         (id[3] % 4) * 64 + id[4]>>
         \o BufferFromBase64Url(SubSeq(id, 5, Len(id)))

\* the code units of the ASCII texts the stores and the layout use
AsciiCode ==
  ("a" :> 97) @@ ("c" :> 99) @@ ("d" :> 100) @@ ("e" :> 101) @@ ("g" :> 103)
    @@ ("h" :> 104) @@ ("i" :> 105) @@ ("l" :> 108) @@ ("m" :> 109) @@ ("n" :> 110)
    @@ ("o" :> 111) @@ ("r" :> 114) @@ ("s" :> 115) @@ ("u" :> 117) @@ ("v" :> 118)
    @@ (":" :> 58) @@ ("/" :> 47) @@ ("_" :> 95)
UnitsOf(text) == [i \in 1..Len(text) |-> AsciiCode[CharAt(text, i)]]

\* session-store.js encodeItemId and decodeItemId
encodeItemIdText(relativePath) == ToBase64Url(Utf8Encode(relativePath))
decodeItemIdText(itemId) == Utf8Decode(BufferFromBase64Url(itemId))

\* decoded.startsWith(tag) ? decoded.slice(tag.length) : null
Untagged(decoded, tag) ==
  IF IsPrefix(tag, decoded)
  THEN [null |-> FALSE, text |-> SubSeq(decoded, Len(tag) + 1, Len(decoded))]
  ELSE [null |-> TRUE, text |-> <<>>]

\* claude-session-store.js
encodeClaudeItemIdText(sessionId) == ToBase64Url(Utf8Encode(UnitsOf("claude:") \o sessionId))
decodeClaudeItemIdText(itemId) == Untagged(decodeItemIdText(itemId), UnitsOf("claude:"))
isClaudeItemIdText(itemId) == ~decodeClaudeItemIdText(itemId).null

\* gemini-session-store.js
encodeGeminiItemIdText(sessionId) == ToBase64Url(Utf8Encode(UnitsOf("gemini:") \o sessionId))
decodeGeminiItemIdText(itemId) == Untagged(decodeItemIdText(itemId), UnitsOf("gemini:"))
isGeminiItemIdText(itemId) == ~decodeGeminiItemIdText(itemId).null

\* code units a name or a session id is made of: "c", ":", "/", U+00E9,
\* U+20AC, and the two halves of the surrogate pair of U+1F600
CodeUnits == {99, 58, 47, 233, 8364, 55357, 56832}

\* the texts of at most n code units
Texts(n) == UNION {[1..k -> CodeUnits] : k \in 0..n}

\* no surrogate without its partner
WellFormed(units) ==
  \A i \in 1..Len(units) :
    /\ IsHighSurrogate(units[i]) => (i < Len(units) /\ IsLowSurrogate(units[i + 1]))
    /\ IsLowSurrogate(units[i]) => (i > 1 /\ IsHighSurrogate(units[i - 1]))

\* what each store encodes.  Codex: the path of a rollout file below the
\* home, its names as readdir returns them (well formed).  Claude: a file
\* name of readdir without its extension.  Gemini: the sessionId that
\* JSON.parse found in the file, any string
EncodedTexts(provider) ==
  CASE provider = "codex" ->
         {root \o name : root \in {UnitsOf("sessions/"), UnitsOf("archived_sessions/")},
                         name \in {t \in Texts(MaxIdLen) : WellFormed(t) /\ t # <<>>}}
    [] provider = "claude" ->
         {t \in Texts(MaxIdLen) : WellFormed(t) /\ \A i \in 1..Len(t) : t[i] # 47}
    [] provider = "gemini" -> Texts(MaxIdLen)

EncodedBy(provider, text) ==
  CASE provider = "codex" -> encodeItemIdText(text)
    [] provider = "claude" -> encodeClaudeItemIdText(text)
    [] provider = "gemini" -> encodeGeminiItemIdText(text)

\* the text the provider's decoder returns; null is FALSE for Codex
DecodedBy(provider, itemId) ==
  CASE provider = "codex" -> [null |-> FALSE, text |-> decodeItemIdText(itemId)]
    [] provider = "claude" -> decodeClaudeItemIdText(itemId)
    [] provider = "gemini" -> decodeGeminiItemIdText(itemId)

\* a store derives the id of an item it lists, and the id is decoded again
EncodeId ==
  /\ last = NoLast
  /\ \E provider \in {"codex", "claude", "gemini"} :
       \E text \in EncodedTexts(provider) :
         \E itemId \in {EncodedBy(provider, text)} :
           last' = [op |-> "encodeId", errs |-> <<>>, provider |-> provider, text |-> text,
                    itemId |-> itemId, decoded |-> DecodedBy(provider, itemId)]
  /\ UNCHANGED <<Config, disk, now, nextId, lost, reqs, crashed, trashedFrom, tampers>>

SpecIds == InitPlain /\ [][EncodeId]_vars

\* the id decodes to the text it was made from
RoundTrips == ~last.decoded.null /\ last.decoded.text = last.text

\* each detector answers true for the ids of its own store and false for
\* those of the others, so findItemAcrossStores hands a Claude id to the
\* Claude store and a Codex id to the Codex store
DetectedByItsOwn ==
  /\ isClaudeItemIdText(last.itemId) <=> (last.provider = "claude")
  /\ isGeminiItemIdText(last.itemId) <=> (last.provider = "gemini")

\* the text with U+FFFD in the place of every surrogate without a partner
Repaired(units) ==
  [i \in 1..Len(units) |->
     IF \/ IsHighSurrogate(units[i]) /\ ~(i < Len(units) /\ IsLowSurrogate(units[i + 1]))
        \/ IsLowSurrogate(units[i]) /\ ~(i > 1 /\ IsHighSurrogate(units[i - 1]))
     THEN 65533 ELSE units[i]]

\* C25 as stated: every id a store makes decodes to the session id or the
\* relative path it was made from, and is detected by its own store only
C25_EveryIdRoundTrips ==
  last.op = "encodeId" => (RoundTrips /\ DetectedByItsOwn)

\* C25: an id decodes to the text it was made from when that text holds no
\* surrogate without its partner, and else to that text with U+FFFD in the
\* place of each such surrogate; every id is detected by its own store only
C25_WellFormedIdsRoundTrip ==
  last.op = "encodeId" =>
    /\ DetectedByItsOwn
    /\ ~last.decoded.null
    /\ last.decoded.text = Repaired(last.text)
    /\ WellFormed(last.text) => RoundTrips

\* a Gemini session id that holds a surrogate pair was encoded and decoded
C25_Witness ==
  /\ last.op = "encodeId"
  /\ last.provider = "gemini"
  /\ \E i \in 1..Len(last.text) : IsHighSurrogate(last.text[i])
  /\ WellFormed(last.text)
  /\ last.decoded.text = last.text

---------------------------------------------------------------------------
(* Path containment on the text of the paths (SpecPaths)                  *)
(* The paths of the sections above are sequences of names; here a path is *)
(* the string the code holds, and path.resolve works on its characters.   *)

\* the longest candidate tried, in names after its first
MaxPieces == 2

EndsWith(text, suffix) ==
  Len(text) >= Len(suffix) /\ SubSeq(text, Len(text) - Len(suffix) + 1, Len(text)) = suffix

\* text.split("/")
RECURSIVE Pieces(_)
Pieces(text) ==
  IF IndexOf(text, "/") = 0 THEN <<text>>
  ELSE <<SubSeq(text, 1, IndexOf(text, "/") - 1)>>
         \o Pieces(SubSeq(text, IndexOf(text, "/") + 1, Len(text)))

\* path.resolve, the names of the result: "" and "." are dropped, ".." drops
\* the name before it and stays at the root when there is none
RECURSIVE ResolvedNames(_, _)
ResolvedNames(acc, pieces) ==
  IF pieces = <<>> THEN acc
  ELSE IF Head(pieces) \in {"", "."} THEN ResolvedNames(acc, Tail(pieces))
  ELSE IF Head(pieces) = ".."
  THEN ResolvedNames(IF acc = <<>> THEN acc ELSE SubSeq(acc, 1, Len(acc) - 1), Tail(pieces))
  ELSE ResolvedNames(Append(acc, Head(pieces)), Tail(pieces))

\* path.resolve, the text of the result: "/" for the root, no "/" at the end
RECURSIVE Slashed(_)
Slashed(names) == IF names = <<>> THEN "" ELSE "/" \o Head(names) \o Slashed(Tail(names))
AbsoluteText(names) == IF names = <<>> THEN "/" ELSE Slashed(names)

\* process.cwd()
CwdText == "/work"

\* path.resolve(from, to): the last absolute argument and what follows it,
\* after the working directory when no argument is absolute
pathResolveText(from, to) ==
  AbsoluteText(ResolvedNames(<<>>,
    IF StartsWith(to, "/") THEN Pieces(to)
    ELSE IF StartsWith(from, "/") THEN Pieces(from) \o Pieces(to)
    ELSE Pieces(CwdText) \o Pieces(from) \o Pieces(to)))

\* isPathInsideRoot that compares with the root as it is, no separator added
isPathInsideRootText_NoSeparator(rootPath, candidatePath) ==
  \E resolvedRoot \in {pathResolveText(rootPath, "")} :
    \E resolvedCandidate \in {pathResolveText(candidatePath, "")} :
      \/ resolvedCandidate = resolvedRoot
      \/ StartsWith(resolvedCandidate, resolvedRoot)

\* fs-utils.js isPathInsideRoot
isPathInsideRootText(rootPath, candidatePath) ==
  \E resolvedRoot \in {pathResolveText(rootPath, "")} :
    \E resolvedCandidate \in {pathResolveText(candidatePath, "")} :
      \/ resolvedCandidate = resolvedRoot
      \/ StartsWith(resolvedCandidate,
                    IF EndsWith(resolvedRoot, "/") THEN resolvedRoot ELSE resolvedRoot \o "/")

\* fs-utils.js resolvePathWithinRoot: [err, path]; err is "" when the path
\* is returned, else the message thrown, without its label
resolvePathWithinRootText(rootPath, relativePath) ==
  IF ~relativePath.isString \/ Trim(relativePath.text) = ""
  THEN [err |-> "is missing", path |-> ""]
  ELSE IF ~isPathInsideRootText(pathResolveText(rootPath, ""),
                                pathResolveText(pathResolveText(rootPath, ""),
                                                relativePath.text))
  THEN [err |-> "escapes allowed root", path |-> ""]
  ELSE [err |-> "",
        path |-> pathResolveText(pathResolveText(rootPath, ""), relativePath.text)]

\* roots: a home, the same with a "/" at the end and with a detour, the
\* root of the filesystem, and a root given relative to the working directory
RootTexts == {"/h/codex", "/h/codex/", "/h/x/../codex", "/", "codex"}

\* the names a candidate is made of
PieceTexts == {"codex", "codex-sibling", "a", "..", ".", "", " "}

RECURSIVE Joined(_)
Joined(pieces) ==
  IF pieces = <<>> THEN ""
  ELSE IF Len(pieces) = 1 THEN Head(pieces)
  ELSE Head(pieces) \o "/" \o Joined(Tail(pieces))

\* candidates: up to MaxPieces names after "/h", after "/work" or relative
CandidateTexts ==
  {lead \o Joined(pieces) :
     lead \in {"/h/", "/work/", ""},
     pieces \in UNION {[1..k -> PieceTexts] : k \in 0..MaxPieces}}

\* a caller asks whether a path is inside a root
IsPathInsideRoot ==
  /\ last = NoLast
  /\ \E rootPath \in RootTexts :
       \E candidatePath \in CandidateTexts :
         last' = [op |-> "isPathInsideRoot", errs |-> <<>>, rootPath |-> rootPath,
                  candidatePath |-> candidatePath,
                  inside |-> isPathInsideRootText(rootPath, candidatePath)]
  /\ UNCHANGED <<Config, disk, now, nextId, lost, reqs, crashed, trashedFrom, tampers>>

\* a caller resolves a relative path of a metadata record within a root
ResolvePathWithinRoot ==
  /\ last = NoLast
  /\ \E rootPath \in RootTexts :
       \E relativePath \in {AString(c) : c \in CandidateTexts} \cup {NotAString} :
         \E r \in {resolvePathWithinRootText(rootPath, relativePath)} :
           last' = [op |-> "resolvePathWithinRoot", errs |-> <<r.err>>,
                    rootPath |-> rootPath, relativePath |-> relativePath, path |-> r.path]
  /\ UNCHANGED <<Config, disk, now, nextId, lost, reqs, crashed, trashedFrom, tampers>>

NextPaths == IsPathInsideRoot \/ ResolvePathWithinRoot

SpecPaths == InitPlain /\ [][NextPaths]_vars

\* the directories and the file a resolved path names, from the root down
NamesOf(resolved) == SelectSeq(Pieces(resolved), LAMBDA name : name # "")

\* the resolved candidate is the resolved root or a path below it
AtOrBelow(rootPath, resolvedCandidate) ==
  IsPrefix(NamesOf(pathResolveText(rootPath, "")), NamesOf(resolvedCandidate))

\* a string that holds something besides whitespace
Given(relativePath) ==
  /\ relativePath.isString
  /\ \E i \in 1..Len(relativePath.text) : CharAt(relativePath.text, i) \notin Whitespace

\* C26: isPathInsideRoot is true exactly when the resolved candidate is the
\* resolved root or lies below it; resolvePathWithinRoot returns the
\* resolved path when the input is given and stays inside the root, throws
\* "is missing" for an input that is empty, blank or not a string, and
\* "escapes allowed root" for one that resolves outside the root
C26_ContainmentIsByDirectory ==
  /\ last.op = "isPathInsideRoot" =>
       (last.inside <=> AtOrBelow(last.rootPath, pathResolveText(last.candidatePath, "")))
  /\ last.op = "resolvePathWithinRoot" =>
       \E resolved \in {pathResolveText(pathResolveText(last.rootPath, ""),
                                        last.relativePath.text)} :
         IF ~Given(last.relativePath)
         THEN last.errs = <<"is missing">>
         ELSE IF AtOrBelow(last.rootPath, resolved)
         THEN last.errs = <<"">> /\ last.path = resolved
         ELSE last.errs = <<"escapes allowed root">>

\* a sibling whose name starts with the name of the root was judged outside
C26_Witness ==
  /\ last.op = "isPathInsideRoot"
  /\ last.rootPath = "/h/codex"
  /\ last.candidatePath = "/h/codex-sibling/a"
  /\ ~last.inside

---------------------------------------------------------------------------
(* What the Claude and the Gemini store read from a session file *)

\* claude-session-store.js MAX_TITLE_SCAN_LINES
CLAUDE_MAX_TITLE_SCAN_LINES == 50

\* one line of a Claude session file, as JSON.parse reads it: json is FALSE
\* for a line that does not parse, content is record.message.content, and
\* gitBranch is "" when the record has none
ClaudeLine(json, type, content, gitBranch) ==
  [json |-> json, type |-> type, content |-> content, gitBranch |-> gitBranch]

\* a Claude session file: blocks [line, n] of the same line n times over, and
\* the token of fs.stat (mtimeMs and size)
ClaudeFile(blocks, stamp) ==
  [kind |-> "session", body |-> "claude", system |-> FALSE, sessionId |-> <<>>,
   blocks |-> blocks, stamp |-> stamp]

ClaudeNoSignals == [firstUserContent |-> "", gitBranch |-> "", messageCount |-> 0]

\* readFirstUserMessage: what n copies of a line add
ClaudeAfterLines(signals, line, n) ==
  IF ~(line.json /\ line.type = "user") THEN signals
  ELSE [firstUserContent |->
          IF signals.firstUserContent = "" /\ line.content.isString
          THEN line.content.text ELSE signals.firstUserContent,
        gitBranch |-> IF signals.gitBranch = "" THEN line.gitBranch ELSE signals.gitBranch,
        messageCount |-> signals.messageCount + n]

\* readFirstUserMessage: the loop over the first 50 lines
RECURSIVE ClaudeScanBlocks(_, _, _)
ClaudeScanBlocks(blocks, scannedLines, signals) ==
  IF blocks = <<>> \/ scannedLines + 1 > CLAUDE_MAX_TITLE_SCAN_LINES THEN signals
  ELSE ClaudeScanBlocks(Tail(blocks), scannedLines + Head(blocks).n,
         ClaudeAfterLines(signals, Head(blocks).line,
           IF Head(blocks).n <= CLAUDE_MAX_TITLE_SCAN_LINES - scannedLines
           THEN Head(blocks).n ELSE CLAUDE_MAX_TITLE_SCAN_LINES - scannedLines))

\* readFirstUserMessage: "" stands for null
readFirstUserMessage(blocks) ==
  CHOOSE signals \in
    {[title |-> claudeNormalizeTitle(scanned.firstUserContent),
      gitBranch |-> scanned.gitBranch, messageCount |-> scanned.messageCount] :
       scanned \in {ClaudeScanBlocks(blocks, 0, ClaudeNoSignals)}} : TRUE

\* a Gemini session file as JSON.parse reads it: json is "object" or
\* "garbage"; sessionId is <<>> when the object has none; summary is not a
\* string when the object has none; messages is [isArray, list]
GeminiFile(json, sessionId, summary, messages, stamp) ==
  [kind |-> "session", body |-> "gemini", system |-> FALSE,
   sessionId |-> IF json = "object" THEN sessionId ELSE <<>>,
   json |-> json, summary |-> summary, messages |-> messages, stamp |-> stamp]

NoMessages == [isArray |-> FALSE, list |-> <<>>]
MessagesOf(list) == [isArray |-> TRUE, list |-> list]
GeminiMessage(type, content) == [type |-> type, content |-> content]

\* #resolveItemMeta: the title of the summary, else of the first user message
GeminiTitleOf(content) ==
  IF content.summary.isString /\ geminiNormalizeTitle(content.summary.text) # ""
  THEN geminiNormalizeTitle(content.summary.text)
  ELSE IF ~content.messages.isArray THEN ""
  ELSE LET users == {i \in 1..Len(content.messages.list) :
                       content.messages.list[i].type = "user"}
       IN IF users = {} THEN ""
          ELSE LET firstUser ==
                     content.messages.list[CHOOSE i \in users : \A j \in users : i <= j]
               IN IF firstUser.content.isString
                  THEN geminiNormalizeTitle(firstUser.content.text) ELSE ""

GeminiNoMeta == [sessionId |-> <<>>, title |-> "", messageCount |-> 0]

\* #resolveItemMeta: what the try block leaves in meta; a file that does not
\* parse leaves the defaults
GeminiMetaOf(content) ==
  IF content.json # "object" THEN GeminiNoMeta
  ELSE [sessionId |-> content.sessionId, title |-> GeminiTitleOf(content),
        messageCount |-> IF content.messages.isArray THEN Len(content.messages.list) ELSE 0]

\* `Untitled ${sessionId.slice(0, 8)}`
UntitledOf(sessionId) ==
  IF sessionId = <<>> THEN "Untitled "
  ELSE "Untitled " \o SubSeq(sessionId[1], 1, IF Len(sessionId[1]) < 8 THEN Len(sessionId[1]) ELSE 8)

---------------------------------------------------------------------------
(* listSessions of the three stores as the sequence of its filesystem      *)
(* calls: the directories are read, then every file found is stat'ed and,  *)
(* unless the title cache has it, read                                     *)

\* the store object of a provider
StoreOf(provider) ==
  [provider |-> provider, titleCache |-> EmptyMap,
   desktopTitleCache |-> NewStore.desktopTitleCache]

File(path, state) == [path |-> path, state |-> state]
NoFile == [path |-> <<>>, state |-> "none", stamp |-> 0]

\* walkFiles: readdir of a directory under the root fails with EACCES
WalkFails(d, den, rootPath) == \E dir \in d.dirs \cap den : IsPrefix(rootPath, dir)

\* SessionStore.#scanRoot: the rollout files walkFiles returns
CodexFound(d, rootPath, state) == {File(p, state) : p \in RolloutFiles(d, rootPath)}

\* ClaudeSessionStore.listSessions: the .jsonl files of the project
\* directories that readdir can read
ClaudeFound(d, den) ==
  {File(p, "active") :
     p \in {q \in FilesUnder(d, claudeProjectsRoot) :
              /\ Len(q) = Len(claudeProjectsRoot) + 2
              /\ Dirname(q) \notin den
              /\ Basename(q)[Len(Basename(q))] = "jsonl"}}

\* GeminiSessionStore.#scanRoot: the session-*.json files of the chats
\* directories that readdir can read
GeminiFound(d, den, rootPath, state) ==
  {File(p, state) :
     p \in {q \in FilesUnder(d, rootPath) :
              /\ Len(q) = Len(rootPath) + 3
              /\ q[Len(rootPath) + 2] = Seg("chats")
              /\ Dirname(q) \notin den
              /\ Len(Basename(q)) >= 2
              /\ Basename(q)[1] = "session"
              /\ Basename(q)[Len(Basename(q))] = "json"}}

\* the directories a listing calls readdir on
DirsRead(provider, d) ==
  CASE provider = "codex" ->
         {dir \in d.dirs : IsPrefix(sessionsRoot, dir) \/ IsPrefix(archivedRoot, dir)}
    [] provider = "claude" ->
         {dir \in d.dirs : /\ IsPrefix(claudeProjectsRoot, dir)
                           /\ Len(dir) <= Len(claudeProjectsRoot) + 1}
    [] provider = "gemini" ->
         {dir \in d.dirs :
            \E rootPath \in {geminiProjectsRoot, geminiArchivedRoot} :
              \/ dir = rootPath
              \/ /\ IsPrefix(rootPath, dir)
                 /\ Len(dir) = Len(rootPath) + 2
                 /\ Basename(dir) = Seg("chats")}

\* the roots of a store
RootsOf(provider) ==
  CASE provider = "codex" -> {sessionsRoot, archivedRoot}
    [] provider = "claude" -> {claudeProjectsRoot}
    [] provider = "gemini" -> {geminiProjectsRoot, geminiArchivedRoot}

\* the readdir calls of a listing: err is "" or the code of the error that
\* ends the listing
Enumerated(provider, d, den) ==
  CASE provider = "codex" ->
         IF WalkFails(d, den, sessionsRoot) \/ WalkFails(d, den, archivedRoot)
         THEN [err |-> "EACCES", files |-> {}]
         ELSE [err |-> "",
               files |-> CodexFound(d, sessionsRoot, "active")
                           \cup CodexFound(d, archivedRoot, "archived")]
    [] provider = "claude" ->
         IF IsDir(d, claudeProjectsRoot) /\ claudeProjectsRoot \in den
         THEN [err |-> "EACCES", files |-> {}]
         ELSE [err |-> "", files |-> ClaudeFound(d, den)]
    [] provider = "gemini" ->
         IF \E rootPath \in {geminiProjectsRoot, geminiArchivedRoot} :
              IsDir(d, rootPath) /\ rootPath \in den
         THEN [err |-> "EACCES", files |-> {}]
         ELSE [err |-> "",
               files |-> GeminiFound(d, den, geminiProjectsRoot, "active")
                           \cup GeminiFound(d, den, geminiArchivedRoot, "archived")]

\* listSessions up to the end of its readdir calls: a call at pc "stat" is
\* about to stat a file of todo, a call at pc "read" is about to read cur
BeginScan(d, den, st) ==
  LET loaded == IF st.provider = "codex" THEN Loaded(d, st) ELSE st
      listed == Enumerated(st.provider, d, den)
  IN [scan |-> [pc |-> IF listed.err = "" THEN "stat" ELSE "failed", err |-> listed.err,
                todo |-> listed.files, cur |-> NoFile, items |-> {},
                enumerated |-> {f.path : f \in listed.files}, found |-> {}, reads |-> {},
                desktopTitles |-> loaded.desktopTitleCache.titles,
                \* for the record: the paths a call of this listing found gone
                \* (ENOENT), the paths it was refused (EACCES), and whether
                \* none of the roots was there when it began
                vanished |-> {}, refused |-> DirsRead(st.provider, d) \cap den,
                noRoot |-> RootsOf(st.provider) \cap d.dirs = {}],
      store |-> loaded]

\* #resolveItemMeta that takes any cached entry of the path
CacheHit_AnyStamp(st, p, stamp) == p \in DOMAIN st.titleCache

\* #resolveItemMeta: the cached entry is current
CacheHit(st, p, stamp) ==
  /\ p \in DOMAIN st.titleCache
  /\ st.titleCache[p].stamp = stamp
  /\ st.provider = "codex" =>
       st.titleCache[p].desktopTitleVersion = st.desktopTitleCache.version

\* ClaudeSessionStore.listSessions: the item pushed for the file p
ClaudeItem(p, entry) ==
  LET fileName == Basename(p)
      sessionId == SubSeq(fileName, 1, Len(fileName) - 1)
  IN [itemId |-> encodeClaudeItemId(sessionId), threadId |-> sessionId,
      title |-> IF entry.title # "" THEN entry.title ELSE UntitledOf(sessionId),
      fileName |-> fileName, state |-> "active", provider |-> "claude",
      absolutePath |-> p, relativePath |-> Rel(PathRelative(ClaudeHome, p)),
      gitBranch |-> entry.gitBranch, messageCount |-> entry.messageCount]

\* GeminiSessionStore.#scanRoot: the item pushed for the file p
GeminiItem(p, state, entry) ==
  [itemId |-> encodeGeminiItemId(entry.sessionId), threadId |-> entry.sessionId,
   title |-> IF entry.title # "" THEN entry.title ELSE UntitledOf(entry.sessionId),
   fileName |-> Basename(p), state |-> state, provider |-> "gemini",
   absolutePath |-> p, relativePath |-> Rel(PathRelative(GeminiHome, p)),
   messageCount |-> entry.messageCount]

\* the items of a call once the entry of the file f is resolved: the Codex
\* store pushes no item for a system session
ItemsWith(provider, items, f, entry) ==
  CASE provider = "codex" ->
         IF entry.isSystemMessage THEN items
         ELSE items \cup {TitledItem(f.path, f.state, entry)}
    [] provider = "claude" -> items \cup {ClaudeItem(f.path, entry)}
    [] provider = "gemini" -> items \cup {GeminiItem(f.path, f.state, entry)}

\* fs.stat of the file f and the lookup in the title cache that follows it
StatFile(scan, f, d, st) ==
  IF ~IsFile(d, f.path)
  THEN [scan EXCEPT !.todo = scan.todo \ {f}, !.vanished = scan.vanished \cup {f.path}]
  ELSE IF CacheHit(st, f.path, d.files[f.path].stamp)
  THEN [scan EXCEPT !.todo = scan.todo \ {f},
                    !.found = scan.found \cup {f.path},
                    !.items = ItemsWith(st.provider, scan.items, f, st.titleCache[f.path])]
  ELSE [scan EXCEPT !.todo = scan.todo \ {f},
                    !.found = scan.found \cup {f.path},
                    !.pc = "read",
                    !.cur = [path |-> f.path, state |-> f.state,
                             stamp |-> d.files[f.path].stamp]]

\* the read of #resolveItemMeta: "ENOENT", "EACCES" or "" with the content
ReadOutcome(d, den, p) ==
  IF ~IsFile(d, p) THEN "ENOENT" ELSE IF p \in den THEN "EACCES" ELSE ""

\* #resolveItemMeta of the three stores: whether the error of the read is
\* thrown on
Rethrown(provider, code) ==
  CASE provider = "codex" -> code = "EACCES"
    [] provider = "claude" -> code = "EACCES"
    [] provider = "gemini" -> FALSE

\* #resolveItemMeta: the entry set in the title cache after the read
EntryRead(scan, d, st, code) ==
  LET p == scan.cur.path IN
  CASE st.provider = "codex" ->
         ResolvedEntry([stamp |-> scan.cur.stamp], st.desktopTitleCache.version,
                       ThreadIdOf(p), scan.desktopTitles,
                       IF code = "" THEN readSessionSignalsFromRollout(d.files[p].blocks)
                       ELSE NoSignals)
    [] st.provider = "claude" ->
         LET signals == IF code = "" THEN readFirstUserMessage(d.files[p].blocks)
                        ELSE [title |-> "", gitBranch |-> "", messageCount |-> 0]
         IN [stamp |-> scan.cur.stamp, title |-> signals.title,
             gitBranch |-> signals.gitBranch, messageCount |-> signals.messageCount]
    [] st.provider = "gemini" ->
         LET meta == IF code = "" THEN GeminiMetaOf(d.files[p]) ELSE GeminiNoMeta
         IN [stamp |-> scan.cur.stamp, sessionId |-> meta.sessionId, title |-> meta.title,
             messageCount |-> meta.messageCount]

\* the read of the file the call has stat'ed, and what #resolveItemMeta and
\* the caller do with it
ReadFile(scan, d, den, st) ==
  LET p == scan.cur.path
      code == ReadOutcome(d, den, p)
  IN IF Rethrown(st.provider, code)
     THEN [scan |-> [scan EXCEPT !.pc = "failed", !.err = code, !.cur = NoFile,
                                 !.refused = scan.refused \cup {p}],
           store |-> st]
     ELSE LET entry == EntryRead(scan, d, st, code)
          IN [scan |-> [scan EXCEPT !.pc = "stat", !.cur = NoFile,
                                    !.reads = scan.reads \cup {p},
                                    !.vanished = IF code = "ENOENT"
                                                 THEN scan.vanished \cup {p}
                                                 ELSE scan.vanished,
                                    !.refused = IF code = "EACCES"
                                                THEN scan.refused \cup {p}
                                                ELSE scan.refused,
                                    !.items = ItemsWith(st.provider, scan.items,
                                                     File(p, scan.cur.state), entry)],
              store |-> [st EXCEPT !.titleCache = (p :> entry) @@ st.titleCache]]

ScanIsOver(scan) == scan.pc = "failed" \/ (scan.pc = "stat" /\ scan.todo = {})

\* the counts of the listing returned
CountsOf(provider, items) ==
  IF provider = "claude" THEN [total |-> Cardinality(items)]
  ELSE [total |-> Cardinality(items),
        active |-> Cardinality({item \in items : item.state = "active"}),
        archived |-> Cardinality({item \in items : item.state = "archived"})]

\* listSessions that returns without pruning the title cache
ReturnListing_NoPrune(scan, st) ==
  IF scan.pc = "failed"
  THEN [err |-> scan.err, items |-> {}, counts |-> [total |-> 0], store |-> st,
        found |-> scan.found, reads |-> scan.reads, enumerated |-> scan.enumerated,
        vanished |-> scan.vanished, refused |-> scan.refused, noRoot |-> scan.noRoot]
  ELSE [err |-> "", items |-> scan.items, counts |-> CountsOf(st.provider, scan.items),
        store |-> st,
        found |-> scan.found, reads |-> scan.reads, enumerated |-> scan.enumerated,
        vanished |-> scan.vanished, refused |-> scan.refused, noRoot |-> scan.noRoot]

\* listSessions from the end of the scans to its return: the title cache
\* keeps the entries of the paths of the items
ReturnListing(scan, st) ==
  IF scan.pc = "failed"
  THEN [err |-> scan.err, items |-> {}, counts |-> [total |-> 0], store |-> st,
        found |-> scan.found, reads |-> scan.reads, enumerated |-> scan.enumerated,
        vanished |-> scan.vanished, refused |-> scan.refused, noRoot |-> scan.noRoot]
  ELSE [err |-> "", items |-> scan.items, counts |-> CountsOf(st.provider, scan.items),
        store |-> [st EXCEPT !.titleCache =
                     [p \in DOMAIN st.titleCache \cap {item.absolutePath : item \in scan.items}
                        |-> st.titleCache[p]]],
        found |-> scan.found, reads |-> scan.reads, enumerated |-> scan.enumerated,
        vanished |-> scan.vanished, refused |-> scan.refused, noRoot |-> scan.noRoot]

\* the rest of a call that no other operation interleaves with
RECURSIVE RunScan(_, _, _, _)
RunScan(scan, d, den, st) ==
  IF ScanIsOver(scan) THEN ReturnListing(scan, st)
  ELSE IF scan.pc = "read"
  THEN LET after == ReadFile(scan, d, den, st) IN RunScan(after.scan, d, den, after.store)
  ELSE RunScan(StatFile(scan, CHOOSE f \in scan.todo : TRUE, d, st), d, den, st)

\* listSessions of the store st, run without another operation in between
Listing(d, den, st) ==
  LET begun == BeginScan(d, den, st) IN RunScan(begun.scan, d, den, begun.store)

---------------------------------------------------------------------------
(* The stores and their title caches, one operation at a time (SpecCache) *)

\* a second Claude project that holds a session file named as ClaudeC is
ClaudeC2 == claudeProjectsRoot \o <<Seg("-other"), <<"c1", "jsonl">>>>

\* where the provider's application may keep a session file
SessionPaths(provider) ==
  CASE provider = "codex" -> {ActiveA, SystemS}
    [] provider = "claude" -> {ClaudeC, ClaudeC2}
    [] provider = "gemini" -> {GeminiG, GeminiH}

SystemRollout ==
  <<Block(MetaLine(AString("cli")), 1), Block(UserLine("<INSTRUCTIONS>be brief"), 1)>>
RequestRollout ==
  <<Block(MetaLine(AString("cli")), 1),
    Block(UserLine("## My request for Codex:\nFix  it"), 1)>>

ClaudeUser(text, gitBranch) == Block(ClaudeLine(TRUE, "user", AString(text), gitBranch), 1)
ClaudeGarbage(n) == Block(ClaudeLine(FALSE, "", NotAString, ""), n)

\* what the provider's application may write to a session file
SessionContents(provider, stamp) ==
  CASE provider = "codex" ->
         {Rollout(SystemRollout, stamp), Rollout(RequestRollout, stamp)}
    [] provider = "claude" ->
         {ClaudeFile(<<ClaudeGarbage(CLAUDE_MAX_TITLE_SCAN_LINES),
                       ClaudeUser("Past the scan", "")>>, stamp),
          ClaudeFile(<<ClaudeUser("Rename \n it", ""), ClaudeUser("Again", "dev")>>, stamp)}
    [] provider = "gemini" ->
         {GeminiFile("object", <<"g1">>, NotAString,
                     MessagesOf(<<GeminiMessage("gemini", AString("Hi")),
                                  GeminiMessage("user", AString("Hello  there"))>>), stamp),
          GeminiFile("garbage", <<>>, NotAString, NoMessages, stamp)}

\* the session files a store starts with
FirstDisk(provider) ==
  CASE provider = "codex" ->
         DiskOf((ActiveA :> Rollout(PlainRollout, 0)) @@ (SystemS :> Rollout(SystemRollout, 0)))
    [] provider = "claude" ->
         DiskOf(ClaudeC :> ClaudeFile(<<ClaudeUser("Fix the bug", "main")>>, 0))
    [] provider = "gemini" ->
         DiskOf((GeminiG :> GeminiFile("object", <<"g1">>, AString("Summary  one"),
                                       NoMessages, 0))
                @@ (GeminiH :> GeminiFile("object", <<"g2">>, NotAString, NoMessages, 0)))

InitCache ==
  /\ \E provider \in {"codex", "claude", "gemini"} :
       /\ disk0 = FirstDisk(provider)
       /\ store = StoreOf(provider)
  /\ disk = disk0
  /\ xdev = FALSE
  /\ retentionDays = MaxRetention
  /\ now = 0
  /\ nextId = 0
  /\ lost = {}
  /\ last = NoLast
  /\ reqs = <<>>
  /\ crashed = FALSE
  /\ trashedFrom = <<>>
  /\ tampers = 0
  /\ server = Listening
  /\ denied = {}

\* the disk with the file written, its directories made
Saved(d, p, content) ==
  [files |-> (p :> content) @@ Without(d.files, {p}),
   dirs |-> d.dirs \cup Prefixes(Dirname(p))]

\* the session files of the provider on the disk
SessionFiles(provider, d) == SessionPaths(provider) \cap DOMAIN d.files

\* the provider's application writes a session file, new or over an old one
WriteSession ==
  /\ now < MaxDays
  /\ now' = now + 1
  /\ \E p \in SessionPaths(store.provider) :
       \E content \in SessionContents(store.provider, now + 1) :
         disk' = Saved(disk, p, content)
  /\ UNCHANGED <<Config, nextId, lost, last, reqs, crashed, trashedFrom, tampers>>

\* a session file is removed
RemoveSession ==
  /\ \E p \in SessionFiles(store.provider, disk) : disk' = Unlink(disk, p).disk
  /\ UNCHANGED <<Config, now, nextId, lost, last, reqs, crashed, trashedFrom, tampers>>

\* listSessions, with no other operation in between; before is the title
\* cache the call began with
ListCached ==
  /\ \E listing \in {Listing(disk, denied, store)} :
       /\ store' = listing.store
       /\ last' = [op |-> "list", errs |-> <<listing.err>>, disk |-> disk,
                   before |-> store, items |-> listing.items, counts |-> listing.counts,
                   found |-> listing.found, reads |-> listing.reads]
  /\ UNCHANGED <<disk, disk0, denied, xdev, retentionDays, server, now, nextId, lost, reqs,
                 crashed, trashedFrom, tampers>>

\* findItemsByIds of one id: listSessions, then the Map by itemId, which
\* keeps one of the items that carry the id
FindItemsByIds ==
  /\ \E listing \in {Listing(disk, denied, store)} :
       /\ store' = listing.store
       /\ \E asked \in listing.items :
            \E kept \in ById(listing.items, asked.itemId) :
              last' = [op |-> "find", errs |-> <<listing.err>>, disk |-> disk,
                       items |-> listing.items, asked |-> asked, found |-> <<kept>>,
                       missing |-> <<>>]
  /\ UNCHANGED <<disk, disk0, denied, xdev, retentionDays, server, now, nextId, lost, reqs,
                 crashed, trashedFrom, tampers>>

\* ClaudeSessionStore has no archiveItem and no unarchiveItem: the call
\* store.archiveItem(item) throws a TypeError and moves nothing
claudeArchiveItem(item, d) == Fail("TypeError", d)
claudeUnarchiveItem(item, d) == Fail("TypeError", d)

\* store.archiveItem(item) on the Claude store, for an item of its listing
ClaudeArchiveItem ==
  /\ store.provider = "claude"
  /\ \E listing \in {Listing(disk, denied, store)} :
       /\ store' = listing.store
       /\ \E item \in listing.items :
            \E outcome \in {claudeArchiveItem(item, disk)} :
              /\ disk' = outcome.disk
              /\ last' = [op |-> "claudeArchive", errs |-> <<outcome.err>>, disk |-> disk',
                          item |-> item, counts |-> listing.counts]
  /\ UNCHANGED <<disk0, denied, xdev, retentionDays, server, now, nextId, lost, reqs,
                 crashed, trashedFrom, tampers>>

\* store.unarchiveItem(item) on the Claude store, for an item of its listing
ClaudeUnarchiveItem ==
  /\ store.provider = "claude"
  /\ \E listing \in {Listing(disk, denied, store)} :
       /\ store' = listing.store
       /\ \E item \in listing.items :
            \E outcome \in {claudeUnarchiveItem(item, disk)} :
              /\ disk' = outcome.disk
              /\ last' = [op |-> "claudeUnarchive", errs |-> <<outcome.err>>, disk |-> disk',
                          item |-> item, counts |-> listing.counts]
  /\ UNCHANGED <<disk0, denied, xdev, retentionDays, server, now, nextId, lost, reqs,
                 crashed, trashedFrom, tampers>>

\* the state file holds a title for a thread
HoldsTitles(d) == d.files[globalStatePath].titles # EmptyMap

NextCache ==
  \/ ListCached
  \/ FindItemsByIds
  \/ WriteSession
  \/ RemoveSession
  \/ (store.provider = "codex" /\ WriteState /\ HoldsTitles(disk'))
  \/ (store.provider = "codex" /\ RemoveState)
  \/ ClaudeArchiveItem
  \/ ClaudeUnarchiveItem

SpecCache == InitCache /\ [][NextCache]_vars

\* two items of a listing that carry the same itemId are the same item
UniqueItemIds(items) == \A a \in items : \A b \in items : a.itemId = b.itemId => a = b

\* C21: no two items of a listing carry the same itemId, and findItemsByIds
\* finds, for an id taken from a listing, the item of the file the id was
\* derived from and no other
C21_ItemIdsAreUnique ==
  /\ last.op \in {"list", "find"} => UniqueItemIds(last.items)
  /\ last.op = "find" => last.found = <<last.asked>>

\* the next listSessions after the Claude store's archive or unarchive
AfterClaudeMove == Listing(last.disk, denied, store)

\* C27: archiveItem of the Claude store succeeds and the next listSessions
\* reports counts.active lowered by one, counts.archived raised by one and
\* the item with state archived; unarchiveItem succeeds and the next
\* listSessions reports the item active again
C27_ClaudeArchiveAndUnarchive ==
  /\ last.op = "claudeArchive" =>
       /\ last.errs = <<"">>
       /\ {"active", "archived"} \subseteq DOMAIN last.counts \cap DOMAIN AfterClaudeMove.counts
       /\ AfterClaudeMove.counts.active = last.counts.active - 1
       /\ AfterClaudeMove.counts.archived = last.counts.archived + 1
       /\ \E item \in AfterClaudeMove.items :
            item.threadId = last.item.threadId /\ item.state = "archived"
  /\ last.op = "claudeUnarchive" =>
       /\ last.errs = <<"">>
       /\ {"active", "archived"} \subseteq DOMAIN AfterClaudeMove.counts
       /\ \E item \in AfterClaudeMove.items :
            item.threadId = last.item.threadId /\ item.state = "active"

\* the cached entry the listing began with does not match the file: there
\* is none, its mtime and size differ or, in the Codex store, it was made
\* under another version of the desktop titles than the one now loaded
Stale(st, d, p) ==
  \/ p \notin DOMAIN st.titleCache
  \/ st.titleCache[p].stamp # d.files[p].stamp
  \/ /\ st.provider = "codex"
     /\ st.titleCache[p].desktopTitleVersion # Loaded(d, st).desktopTitleCache.version

\* the items a store without any cached entry lists for the path
ItemsOfPath(items, p) == {item \in items : item.absolutePath = p}
ResolvedAnew(d, provider, p) == ItemsOfPath(Listing(d, denied, StoreOf(provider)).items, p)

\* C28: a listing reads exactly the session files whose cached entry does
\* not match the file's mtime and size (and, for Codex, the version of the
\* desktop titles), and lists each of them, title and system classification,
\* as its content is now; so does it list the files it did not read
C28_CacheValidOnlyWhileStampsMatch ==
  last.op = "list" =>
    /\ last.reads = {p \in SessionFiles(last.before.provider, last.disk) :
                       Stale(last.before, last.disk, p)}
    /\ \A p \in SessionFiles(last.before.provider, last.disk) :
         ItemsOfPath(last.items, p) = ResolvedAnew(last.disk, last.before.provider, p)

\* a listing has read again a file that was rewritten since the listing
\* before it, and has found another title than the cached one
C28_Witness ==
  /\ last.op = "list"
  /\ \E p \in last.reads \cap DOMAIN last.before.titleCache \cap DOMAIN store.titleCache :
       /\ last.before.titleCache[p].stamp # last.disk.files[p].stamp
       /\ last.before.titleCache[p].title # store.titleCache[p].title

\* C30: when listSessions has returned, every session file on disk under
\* the store's roots, the system-generated ones included, has a title-cache
\* entry with its mtime and size, and a second listSessions with nothing
\* changed reads no file
C30_PruningKeepsEveryFileOnDisk ==
  last.op = "list" =>
    /\ \A p \in SessionFiles(store.provider, last.disk) :
         /\ p \in DOMAIN store.titleCache
         /\ store.titleCache[p].stamp = last.disk.files[p].stamp
    /\ Listing(last.disk, denied, store).reads = {}

---------------------------------------------------------------------------
(* A listing among other operations: files removed, permissions withdrawn *)
(* (SpecScan)                                                             *)

\* the listSessions calls of one store that may be in flight together
MaxScans == 1
\* listSessions up to the end of its readdir calls
BeginListing ==
  /\ Len(reqs) < MaxScans
  /\ \E begun \in {BeginScan(disk, denied, store)} :
       /\ store' = begun.store
       /\ reqs' = Append(reqs, begun.scan)
  /\ UNCHANGED <<disk, disk0, denied, xdev, retentionDays, server, now, nextId, lost, last,
                 crashed, trashedFrom, tampers>>

\* fs.stat of one of the files found, and the lookup in the title cache
StatStep ==
  /\ \E i \in 1..Len(reqs) :
       /\ reqs[i].pc = "stat"
       /\ \E f \in reqs[i].todo :
            reqs' = [reqs EXCEPT ![i] = StatFile(reqs[i], f, disk, store)]
  /\ UNCHANGED <<Config, disk, now, nextId, lost, last, crashed, trashedFrom, tampers>>

\* the read of the file stat'ed, and titleCache.set
ReadStep ==
  /\ \E i \in 1..Len(reqs) :
       /\ reqs[i].pc = "read"
       /\ \E after \in {ReadFile(reqs[i], disk, denied, store)} :
            /\ reqs' = [reqs EXCEPT ![i] = after.scan]
            /\ store' = after.store
  /\ UNCHANGED <<disk, disk0, denied, xdev, retentionDays, server, now, nextId, lost, last,
                 crashed, trashedFrom, tampers>>

\* listSessions prunes the title cache and returns, or rejects; cache is the
\* title cache as the call leaves it, pruned the paths whose entries it has
\* deleted, onDisk the session files on disk when it returns
ReturnStep ==
  /\ \E i \in 1..Len(reqs) :
       /\ ScanIsOver(reqs[i])
       /\ \E listing \in {ReturnListing(reqs[i], store)} :
            /\ store' = listing.store
            /\ last' = [op |-> "list", errs |-> <<listing.err>>, items |-> listing.items,
                        counts |-> listing.counts, enumerated |-> listing.enumerated,
                        found |-> listing.found, vanished |-> listing.vanished,
                        refused |-> listing.refused, noRoot |-> listing.noRoot,
                        cache |-> listing.store.titleCache,
                        pruned |-> DOMAIN store.titleCache \ DOMAIN listing.store.titleCache,
                        onDisk |-> SessionFiles(store.provider, disk)]
       /\ reqs' = SubSeq(reqs, 1, i - 1) \o SubSeq(reqs, i + 1, Len(reqs))
  /\ UNCHANGED <<disk, disk0, denied, xdev, retentionDays, server, now, nextId, lost,
                 crashed, trashedFrom, tampers>>

\* a root of the store is removed with all it holds
RemoveRoot ==
  /\ \E rootPath \in RootsOf(store.provider) \cap disk.dirs : disk' = RmRf(disk, rootPath).disk
  /\ UNCHANGED <<Config, now, nextId, lost, last, reqs, crashed, trashedFrom, tampers>>

\* what may lose its read permission: a root of the store, a directory that
\* holds a session file, a session file
Deniable(provider, d) ==
  ((RootsOf(provider) \cup {Dirname(p) : p \in SessionFiles(provider, d)}) \cap d.dirs)
    \cup SessionFiles(provider, d)

\* the process loses the permission to read a directory or a session file;
\* one path at most
Deny ==
  /\ denied = {}
  /\ \E p \in Deniable(store.provider, disk) \ denied : denied' = denied \cup {p}
  /\ UNCHANGED <<disk, disk0, xdev, retentionDays, server, store, now, nextId, lost, last,
                 reqs, crashed, trashedFrom, tampers>>

NextScan ==
  \/ BeginListing
  \/ StatStep
  \/ ReadStep
  \/ ReturnStep
  \/ RemoveSession
  \/ RemoveRoot
  \/ Deny

\* the session files a store starts with: two for each
ScanDisk(provider) ==
  CASE provider = "codex" -> FirstDisk("codex")
    [] provider = "claude" ->
         Saved(FirstDisk("claude"), ClaudeC2,
               ClaudeFile(<<ClaudeUser("Rename \n it", "")>>, 0))
    [] provider = "gemini" -> FirstDisk("gemini")

InitScan ==
  /\ \E provider \in {"codex", "claude", "gemini"} :
       /\ disk0 = ScanDisk(provider)
       /\ store = StoreOf(provider)
  /\ disk = disk0
  /\ xdev = FALSE
  /\ retentionDays = MaxRetention
  /\ now = 0
  /\ nextId = 0
  /\ lost = {}
  /\ last = NoLast
  /\ reqs = <<>>
  /\ crashed = FALSE
  /\ trashedFrom = <<>>
  /\ tampers = 0
  /\ server = Listening
  /\ denied = {}

SpecScan == InitScan /\ [][NextScan]_vars

\* C22: a listing that finds no root returns zero items and does not fail,
\* and a session file that was there when the directories were read and is
\* gone when it is stat'ed or read is not among the items returned and does
\* not make the listing fail
C22_FileRemovedMidScanIsAbsent ==
  last.op = "list" =>
    /\ last.noRoot => last.items = {} /\ last.errs = <<"">>
    /\ last.refused = {} => last.errs = <<"">>
    /\ \A item \in last.items : item.absolutePath \notin last.vanished

\* C23: a listing that was refused the read of a directory or of a session
\* file (EACCES) fails as a whole; it does not return a listing
C23_AccessErrorsFailTheListing ==
  last.op = "list" /\ last.refused # {} => last.errs # <<"">>

---------------------------------------------------------------------------
(* The version a cached title is tagged with (SpecTitles) *)

\* the version token of the state file as it is now: 0 when there is none
VersionNow(d) == IF IsFile(d, globalStatePath) THEN d.files[globalStatePath].stamp ELSE 0

\* C31: a title-cache entry tagged with the version of the state file as it
\* is now holds the title computed from the overrides the file now holds,
\* also when listSessions calls interleave and the state file changes
\* between their loads; so a cache hit never returns a title of older
\* overrides
C31_CachedTitleIsOfItsVersion ==
  \A p \in DOMAIN store.titleCache :
    /\ IsFile(disk, p)
    /\ store.titleCache[p].stamp = disk.files[p].stamp
    /\ store.titleCache[p].desktopTitleVersion = VersionNow(disk)
    => store.titleCache[p].title =
         ExpectedTitle(OverrideOf(disk, ThreadIdOf(p)),
                       readSessionSignalsFromRollout(disk.files[p].blocks).firstUserTitle,
                       ThreadIdOf(p))

---------------------------------------------------------------------------
(* Two requests on two items with one destination (SpecCollide) *)

\* PlainDisk after its active Codex session went to the trash, a new file
\* was written at the same path, and that one went to the trash as well
TwoSlotsDisk ==
  Run(Call("trash",
           ItemAt(WriteFile(TrashedDisk, ActiveA, Session("bA2", FALSE, <<>>)).disk, ActiveA),
           createTrashId(2), CodexHome),
      WriteFile(TrashedDisk, ActiveA, Session("bA2", FALSE, <<>>)).disk).disk

\* an archived file with the file name of ActiveA
ArchivedA == Append(archivedRoot, RolloutName("2026", "02", "08", "tA"))

\* the active session of PlainDisk in the trash, and an archived file that
\* unarchives to the path it was trashed from
TrashedAndArchivedDisk == Saved(TrashedDisk, ArchivedA, Session("bA3", FALSE, <<>>))

\* the starts: two items that archive to one path, two slots that restore to
\* one path, a slot and an archived item that go to one path
CollideStarts ==
  {[disk |-> TwinDisk, trashedFrom |-> <<>>],
   [disk |-> TwoSlotsDisk, trashedFrom |-> <<CodexHome, CodexHome>>],
   [disk |-> TrashedAndArchivedDisk, trashedFrom |-> <<CodexHome>>]}

InitCollide ==
  /\ xdev \in BOOLEAN
  /\ retentionDays = MaxRetention
  /\ now = 0
  /\ \E start \in CollideStarts :
       /\ disk0 = start.disk
       /\ trashedFrom = start.trashedFrom
       /\ nextId = Len(start.trashedFrom)
  /\ disk = disk0
  /\ lost = {}
  /\ last = NoLast
  /\ reqs = <<>>
  /\ crashed = FALSE
  /\ tampers = 0
  /\ server = Listening
  /\ store = NewStore
  /\ denied = {}

SpecCollide == InitCollide /\ [][NextRace]_vars

\* the calls a and b move two files to one path
SameDestination(a, b) == a.dst # <<>> /\ a.dst = b.dst /\ a.src # b.src

\* C32: when two requests that act on different items with the same
\* destination path have both run to their end, the two moves have not both
\* succeeded and the content of every session file is still on disk
C32_NoMoveReplacesAFile ==
  Finished =>
    /\ \A a \in Range(reqs[1].done), b \in Range(reqs[2].done) :
         SameDestination(a, b) => ~(a.err = "" /\ b.err = "")
    /\ Bodies(disk0) \subseteq Bodies(disk)

---------------------------------------------------------------------------
(* The slot a record was read from (SpecSweepTamper) *)

\* the slots whose own record parses and says the expiry is still ahead
NotYetExpired(d) ==
  {n \in SlotsWithMeta(d) :
     /\ d.files[MetadataPath(createTrashId(n))].json = "object"
     /\ now < d.files[MetadataPath(createTrashId(n))].expiresAt}

\* C33: whatever the records hold, a record whose trashId names another slot
\* included, cleanupExpired leaves every slot as it is whose own record says
\* that its expiry is still ahead
C33_SweepSparesSlotsNotExpired ==
  \E report \in {cleanupExpired(disk)} :
    \A n \in NotYetExpired(disk) : SlotContent(report.disk, n) = SlotContent(disk, n)

---------------------------------------------------------------------------
(* A delete that fails (SpecRace) *)

\* the calls of trashSessionItem that have thrown
FailedDeletes ==
  {c \in UNION {Range(reqs[i].done) : i \in DOMAIN reqs} : c.op = "trash" /\ c.err # ""}

\* C34: once a call of trashSessionItem has failed, no slot directory without
\* a metadata record remains of it under items/: the directory of its trash
\* id is absent, or it holds a meta.json.
C34_FailedDeleteLeavesNoSlot ==
  ~crashed =>
    \A c \in FailedDeletes :
      IsDir(disk, ItemRoot(c.trashId)) => IsFile(disk, MetadataPath(c.trashId))

---------------------------------------------------------------------------
(* movePath, one call with nothing else acting on the two paths, each of    *)
(* its filesystem calls returning or failing (SpecMove)                     *)

MaxMoves == 1

\* the disks a move starts from: the trash root exists
MoveDisks == {ensureDir(PlainDisk, itemsRoot).disk, ensureDir(TwinDisk, itemsRoot).disk}

\* where the callers move a file to: into the trash, under the archived root,
\* onto the path of another file, and into a directory that does not exist
Destinations(d, src) ==
  ({Append(itemsRoot, Basename(src)), Append(archivedRoot, Basename(src)),
    PathJoin(CodexHome, <<Seg("nowhere"), Basename(src)>>)}
     \cup SessionFilesUnder(d, CodexHome)) \ {src}

\* what copyFile leaves when it stops half way
Partial(content) == [content EXCEPT !.body = "partial"]

\* a filesystem call of movePath fails for a reason the paths do not show
\* (an I/O error, a full disk): nothing is changed, or the copy is left
\* unfinished at the destination
Faults(c, d) ==
  {Fail("EIO", d)} \cup
  (IF c.pc = "copyFile" /\ CopyFile(d, c.src, c.dst).err = ""
   THEN {Fail("ENOSPC", [d EXCEPT !.files = (c.dst :> Partial(d.files[c.src]))
                                              @@ Without(d.files, {c.dst})])}
   ELSE {})

InitMove ==
  /\ disk0 \in MoveDisks
  /\ disk = disk0
  /\ xdev \in BOOLEAN
  /\ retentionDays = MaxRetention
  /\ now = 0
  /\ nextId = 0
  /\ lost = {}
  /\ last = NoLast
  /\ reqs = <<>>
  /\ crashed = FALSE
  /\ trashedFrom = <<>>
  /\ tampers = 0
  /\ server = Listening
  /\ store = NewStore
  /\ denied = {}

\* movePath(sourcePath, destinationPath) is called on a session file
CallMovePath ==
  /\ nextId < MaxMoves
  /\ \A i \in DOMAIN reqs : reqs[i].todo = <<>>
  /\ \E src \in SessionFilesUnder(disk, <<>>) :
       \E dst \in Destinations(disk, src) :
         reqs' = <<[todo |-> <<[Call("move", NoItem, <<>>, <<>>)
                                  EXCEPT !.pc = "rename", !.src = src, !.dst = dst]>>,
                    done |-> <<>>]>>
  /\ nextId' = nextId + 1
  /\ last' = [op |-> "movePath", errs |-> <<>>, disk |-> disk]
  /\ UNCHANGED <<Config, disk, now, lost, crashed, trashedFrom, tampers>>

\* movePath goes on with what its filesystem call gave
MoveOn(result) ==
  /\ reqs # <<>>
  /\ reqs[1].todo # <<>>
  /\ \E o \in {movePathAfter(Head(reqs[1].todo), disk, result)} :
       /\ disk' = o.disk
       /\ reqs' = <<IF o.c.pc = "done" THEN [todo |-> <<>>, done |-> <<o.c>>]
                    ELSE [todo |-> <<o.c>>, done |-> <<>>]>>
  /\ last' = [last EXCEPT !.errs = Append(@, result.err)]
  /\ UNCHANGED <<Config, now, nextId, lost, crashed, trashedFrom, tampers>>

\* the next filesystem call of movePath does what the disk lets it do
MoveCallReturns ==
  /\ reqs # <<>> /\ reqs[1].todo # <<>>
  /\ MoveOn(MoveCall(Head(reqs[1].todo), disk))

\* the next filesystem call of movePath fails
MoveCallFails ==
  /\ reqs # <<>> /\ reqs[1].todo # <<>>
  /\ \E result \in Faults(Head(reqs[1].todo), disk) : MoveOn(result)

NextMove == CallMovePath \/ MoveCallReturns \/ MoveCallFails

SpecMove == InitMove /\ [][NextMove]_vars

\* movePath has returned or thrown
Moved == last.op = "movePath" /\ reqs # <<>> /\ reqs[1].todo = <<>>

\* the errors of the filesystem calls movePath made are those of a rename
\* alone, or of a rename that failed with EXDEV, a copy and, when the copy
\* succeeded, an unlink
RenameThenFallback(errs) ==
  /\ Len(errs) \in 1..3
  /\ Len(errs) > 1 => errs[1] = "EXDEV"
  /\ Len(errs) = 1 => errs[1] # "EXDEV"
  /\ Len(errs) = 3 => errs[2] = ""
  /\ Len(errs) = 2 => errs[2] # ""

\* C35: when movePath has returned or thrown, it has made a rename and, only
\* after the error EXDEV, a copy and an unlink of the source; the error of the
\* last of these calls is the error thrown; without an error the source is
\* gone and the destination holds what the source held; with an error the
\* source holds what it held.
C35_MovePathMovesOrLeavesTheSource ==
  Moved =>
    \E c \in {reqs[1].done[1]} :
      /\ RenameThenFallback(last.errs)
      /\ c.err = last.errs[Len(last.errs)]
      /\ c.err = "" =>
           /\ ~Access(disk, c.src)
           /\ IsFile(disk, c.dst)
           /\ disk.files[c.dst] = last.disk.files[c.src]
      /\ c.err # "" =>
           /\ IsFile(disk, c.src)
           /\ disk.files[c.src] = last.disk.files[c.src]

\* the trash is on another device and the unlink after the copy has failed:
\* the error is thrown and the file is at both paths
C35_Witness ==
  /\ Moved
  /\ last.errs = <<"EXDEV", "", "EIO">>
  /\ reqs[1].done[1].err = "EIO"
  /\ IsFile(disk, reqs[1].done[1].src)
  /\ IsFile(disk, reqs[1].done[1].dst)

---------------------------------------------------------------------------
(* The scan that stops early and the scan of every line (SpecSignals) *)

\* the blocks that begin within the first 700 lines
FirstLines(blocks) == SubSeq(blocks, 1, Cardinality(Within(blocks)))

\* the signals after every one of the lines has been parsed, none left out
RECURSIVE SignalsOfAll(_, _)
SignalsOfAll(blocks, signals) ==
  IF blocks = <<>> THEN signals
  ELSE SignalsOfAll(Tail(blocks), AfterLine(signals, Head(blocks).line))

\* the rollout files of both roots
AllRolloutFiles(d) == RolloutFiles(d, sessionsRoot) \cup RolloutFiles(d, archivedRoot)

\* C36: the signals readSessionSignalsFromRollout returns for a rollout file
\* are those of parsing every one of its first 700 lines with no early exit:
\* a line after line 700 adds nothing, and a line that does not parse adds
\* nothing and does not end the scan.
C36_EarlyExitChangesNoSignal ==
  \A p \in AllRolloutFiles(disk) :
    readSessionSignalsFromRollout(disk.files[p].blocks)
      = SignalsOfAll(FirstLines(disk.files[p].blocks), NoSignals)

\* a listing has just read a file that begins with a line that does not
\* parse and whose signals are settled before its last line
C36_Witness ==
  /\ last = [op |-> "list", errs |-> <<"">>]
  /\ \E blocks \in {disk.files[ActiveA].blocks} :
       /\ Len(blocks) >= 3
       /\ blocks[1].line = GarbageLine
       /\ Settled(readSessionSignalsFromRollout(SubSeq(blocks, 1, Len(blocks) - 1)))
       /\ AfterLine(NoSignals, blocks[Len(blocks)].line) # NoSignals

---------------------------------------------------------------------------
(* What listTrashItems says of each slot (SpecTamper) *)

\* a file is at the recorded payload path, resolved inside the slot trashId
PayloadFileIn(d, trashId, metadata) ==
  \E resolved \in {resolvePathWithinRoot(ItemRoot(trashId), metadata.payloadRelativePath)} :
    resolved.err = "" /\ IsFile(d, resolved.path)

\* the slot directories whose meta.json is missing or does not parse
Unreadable(d) ==
  {q \in SlotEntries(d) :
     \/ ~IsFile(d, MetadataPath(Basename(q)))
     \/ d.files[MetadataPath(Basename(q))].kind # "meta"
     \/ d.files[MetadataPath(Basename(q))].json = "garbage"}

\* the slot directories whose meta.json parses to a record
Records(d) ==
  {q \in SlotEntries(d) \ Unreadable(d) : d.files[MetadataPath(Basename(q))].json = "object"}

\* C37: every item of listTrashItems is expired exactly when now >= its
\* expiresAt and has payloadExists exactly when a file is at its payload path
\* resolved inside its own slot; when every meta.json that parses is a record,
\* the listing does not fail and holds one item for each of them, the slots
\* with a missing or unparsable meta.json left out.
C37_ListingTellsExpiryAndPayload ==
  \E listing \in {listTrashItems(disk)} :
    /\ \A item \in listing.items :
         /\ item.expired <=> now >= item.metadata.expiresAt
         /\ item.payloadExists <=> PayloadFileIn(disk, item.slot, item.metadata)
    /\ Records(disk) = SlotEntries(disk) \ Unreadable(disk) =>
         /\ listing.err = ""
         /\ {item.slot : item \in listing.items} = {Basename(q) : q \in Records(disk)}

---------------------------------------------------------------------------
(* Archive, then unarchive (Spec) *)

\* a file is at the active path unarchiveItem derives from the file name
DestinationTaken(d, fileName) ==
  MatchesRolloutPattern(fileName) /\ ~ActivePathFree(d, fileName)

\* the item is stored in the date directory its file name gives
InItsDateDirectory(item) ==
  \E parsed \in {parseRolloutFilename(item.fileName)} :
    /\ parsed.ok
    /\ item.absolutePath = sessionsRoot \o <<Seg(parsed.year), Seg(parsed.month),
                                              Seg(parsed.day), item.fileName>>

\* C38: every Codex item that archiveItem has moved is unarchived without
\* error when no file is at the destination of the unarchive, and an item
\* that was in the date directory of its file name is then back at its
\* original path with its content.
C38_ArchiveIsReversible ==
  \A item \in CodexActive(disk) :
    \E a \in {Run(Call("archive", item, <<>>, <<>>), disk)} :
      a.c.err = "" =>
        /\ ListedAt(CodexArchived(a.disk), a.c.dst) # {}
        /\ \A archived \in ListedAt(CodexArchived(a.disk), a.c.dst) :
             \E u \in {Run(Call("unarchive", archived, <<>>, <<>>), a.disk)} :
               /\ ~DestinationTaken(a.disk, archived.fileName) => u.c.err = ""
               /\ (u.c.err = "" /\ InItsDateDirectory(item)) =>
                    /\ IsFile(u.disk, item.absolutePath)
                    /\ u.disk.files[item.absolutePath] = disk.files[item.absolutePath]
                    /\ \E back \in CodexActive(u.disk) : back.relativePath = item.relativePath

---------------------------------------------------------------------------
(* The sweep of a store started with another retention (SpecExpiry) *)

\* the record of the slot n
SlotRecord(d, n) == d.files[MetadataPath(createTrashId(n))]

\* the slots with a record that the sweep report has removed
SweptSlots(d, report) == {n \in SlotsWithMeta(d) : SlotGone(report.disk, n)}

\* the slots whose stored expiresAt the clock has reached
DueSlots(d) == {n \in SlotsWithMeta(d) : SlotRecord(d, n).expiresAt <= now}

\* the slots the retention of the running store would give up, counted from
\* the day each was trashed
DueByRunningRetention(d) ==
  {n \in SlotsWithMeta(d) : SlotRecord(d, n).deletedAt + retentionDays <= now}

\* C39: whatever retentionDays the running store was constructed with,
\* cleanupExpired purges exactly the slots whose stored expiresAt the clock
\* has reached: the set is given by the records and the clock alone.
C39_SweepIgnoresRunningRetention ==
  \E report \in {cleanupExpired(disk)} :
    /\ report.err = ""
    /\ SweptSlots(disk, report) = DueSlots(disk)

\* a sweep has just run in a store whose own retention would give up a slot
\* that was trashed under a longer one, and the slot is still there
C39_Witness ==
  /\ last.op \in {"cleanup", "start"}
  /\ \E n \in DueByRunningRetention(disk) : n \notin DueSlots(disk)

====
